---- MODULE Spec2Model ----
(***************************************************************************)
(* EIWYG live data pipeline: the dashboard viewer (frontend/js/view.js)    *)
(* and the dashboard editor (frontend/js/editor.js) connection sessions,   *)
(* their subscription bookkeeping, their reconnect logic and their routing *)
(* of inbound updates, and the time-series buffer of the plot component    *)
(* and the state of the motor-control component (frontend/js/load.js).     *)
(*                                                                         *)
(* `mode` records what a run follows: a viewer page, an editor page, one   *)
(* plot widget or one motor-control widget; only that part takes steps.    *)
(* JavaScript handlers run to completion, so every handler is one atomic   *)
(* action.                                                                 *)
(*                                                                         *)
(* A PV name is a string; it is modelled as a sequence of tokens so that   *)
(* concatenation (base + ':RBV') is \o.  null is the one-token sequence    *)
(* Null, whose token is no part of any name, and '' is the empty sequence. *)
(***************************************************************************)
EXTENDS Integers, Sequences, FiniteSets, TLC

VARIABLES mode, viewer, editor, plot, motor

vars == <<mode, viewer, editor, plot, motor>>

\* ---------------------------------------------------------------- bounds

\* Number of widgets of a viewed dashboard.
MaxViewerWidgets == 2

\* Number of put requests the model lets a page issue per connection.
MaxPuts == 1

\* ------------------------------------------------------------- constants

\* DashboardViewer.reconnectDelay as constructed and as reset by onopen, and
\* DashboardViewer.maxReconnectDelay.
ReconnectFloor == 1000
maxReconnectDelay == 30000

\* ----------------------------------------------------------------- values

Null == <<"<null>">>
EmptyStr == <<>>

\* JavaScript truthiness of a PV field: neither null/undefined nor ''.
Truthy(pv) == pv # Null /\ pv # EmptyStr

\* The value null of a message field or of a widget's _currentValue; other
\* scalar values are written as their JSON text.
NoValue == "null"

Min(a, b) == IF a <= b THEN a ELSE b

\* The elements of a sequence.
Range(s) == {s[i] : i \in DOMAIN s}

\* WebSocket.readyState of the socket a session's `ws` field references;
\* "null" when the field holds no socket.
NoSocket == "null"
CONNECTING == "CONNECTING"
OPEN == "OPEN"
CLOSING == "CLOSING"
CLOSED == "CLOSED"

\* ------------------------------------------------------------- numbers

\* A JavaScript number is the pair <<n, d>> for n/d in lowest terms with
\* d > 0, or <<1, 0>> for Infinity, <<-1, 0>> for -Infinity and <<0, 0>> for
\* NaN; the arithmetic is exact where a double would round.
Abs(x) == IF x < 0 THEN -x ELSE x
Sign(x) == IF x > 0 THEN 1 ELSE IF x < 0 THEN -1 ELSE 0
RECURSIVE Gcd(_, _)
Gcd(a, b) == IF b = 0 THEN a ELSE Gcd(b, a % b)
Num(n, d) ==
    IF d = 0 THEN <<Sign(n), 0>>
    ELSE LET g == Gcd(Abs(n), Abs(d)) IN <<Sign(d) * (n \div g), Abs(d) \div g>>
FromInt(n) == <<n, 1>>
NaN == <<0, 0>>
Infinity == <<1, 0>>
IsNaN(a) == a = NaN
NumAdd(a, b) ==
    IF a[2] = 0 /\ b[2] = 0 THEN (IF a = b THEN a ELSE NaN)
    ELSE LET g == Gcd(a[2], b[2])
         IN Num(a[1] * (b[2] \div g) + b[1] * (a[2] \div g), (a[2] \div g) * b[2])
NumSub(a, b) == NumAdd(a, <<-b[1], b[2]>>)
\* a / k for an integer k >= 0.
NumDiv(a, k) ==
    IF k = 0 THEN (IF a[2] = 0 THEN a ELSE <<Sign(a[1]), 0>>) ELSE Num(a[1], a[2] * k)
\* a < b and a <= b; false when either side is NaN.
NumLt(a, b) ==
    /\ ~IsNaN(a) /\ ~IsNaN(b)
    /\ IF a[2] = 0 \/ b[2] = 0
       THEN (IF a[2] = 0 /\ b[2] = 0 THEN a[1] < b[1]
             ELSE IF a[2] = 0 THEN a[1] < 0 ELSE b[1] > 0)
       ELSE LET g == Gcd(a[2], b[2])
            IN a[1] * (b[2] \div g) < b[1] * (a[2] \div g)
NumLeq(a, b) == ~IsNaN(a) /\ ~IsNaN(b) /\ (a = b \/ NumLt(a, b))

\* parseFloat of a message's value field, given as its JSON text: a number
\* too large for a double reads as Infinity, text that starts with no
\* number and null read as NaN.
ParseFloat(value) ==
    CASE value = "1" -> FromInt(1)
      [] value = "0" -> FromInt(0)
      [] value = "1e999" -> Infinity
      [] value = "\"Infinity\"" -> Infinity
      [] value = "-1e999" -> <<-1, 0>>
      [] OTHER -> NaN

\* A config entry that is null or absent (the configured numbers of the
\* model are positive).
Unset == -1

\* --------------------------------------------------- component registry

\* The widget types of the model that window.EIWYG_COMPONENTS registers; the
\* type "custom" of the dashboards below has no entry there.
Registered == {"numeric-display", "motor-control", "label"}

\* getSubscribePVs of a registered component, as an array.
GetSubscribePVs(type, pv) ==
    CASE type = "label" -> <<>>
      [] type = "motor-control" ->
            IF ~Truthy(pv) THEN <<>>
            ELSE <<pv \o <<":RBV">>, pv \o <<":VAL">>, pv \o <<":MOVN">>>>
      [] OTHER -> IF Truthy(pv) THEN <<pv>> ELSE <<>>

\* String(v) of a number, and v.toFixed(3), for the numbers the model's
\* frames carry.
NumString(a) ==
    CASE a = FromInt(0) -> "0"
      [] a = FromInt(1) -> "1"
      [] a = Infinity -> "Infinity"
      [] a = <<-1, 0>> -> "-Infinity"
      [] OTHER -> "NaN"
ToFixed3(a) ==
    CASE a = FromInt(0) -> "0.000"
      [] a = FromInt(1) -> "1.000"
      [] OTHER -> NumString(a)

\* formatValue(value, precision) for a value that is a number already or
\* that parseFloat has read; precision is Unset (null) or 3.
Placeholder == "---"
FormatValue(a, precision) ==
    IF IsNaN(a) THEN Placeholder
    ELSE IF precision # Unset THEN ToFixed3(a) ELSE NumString(a)

\* parseFloat(value) || 0
ParseFloatOrZero(value) ==
    LET a == ParseFloat(value) IN IF IsNaN(a) \/ a = FromInt(0) THEN FromInt(0) ELSE a

\* What an update wrote: the element (data-role) and its text; NoWrite when
\* it wrote nothing.
Wrote(role, text) == [role |-> role, text |-> text]
NoWrite == Wrote("none", "")

\* numeric-display's update(container, widget, pvName, pvData): the text of
\* the value element (no precision configured).
NumericDisplayUpdate(value) == Wrote("value", FormatValue(ParseFloat(value), Unset))

\* motor-control's update: the element the suffix of pvName after the base
\* PV selects (default precision 3).
MotorControlUpdate(basePv, pvName, value) ==
    LET base == IF Truthy(basePv) THEN basePv ELSE EmptyStr
        suffix == SubSeq(pvName, Len(base) + 1, Len(pvName))
    IN CASE suffix = <<":RBV">> ->
                Wrote("readback", FormatValue(ParseFloatOrZero(value), 3))
         [] suffix = <<":VAL">> ->
                Wrote("setpoint-input", FormatValue(ParseFloatOrZero(value), 3))
         [] suffix = <<":MOVN">> ->
                Wrote("status-text",
                      IF value # NoValue /\ value # "0" /\ value # "\"0\""
                      THEN "Moving" ELSE "Idle")
         [] OTHER -> NoWrite

\* String(val) of a message's value, given as its JSON text.
ValueString(value) ==
    CASE value = "\"abc\"" -> "abc"
      [] value = "1e999" -> "Infinity"
      [] OTHER -> value

\* handlePVUpdate's fallback for a widget without a renderer update: the
\* text of the .widget-value element (no precision configured).
FallbackUpdate(value) ==
    Wrote("widget-value", IF value # NoValue THEN ValueString(value) ELSE "--")

\* resolveVariables(pv, variables): every token that names a dashboard
\* variable is replaced by the variable's value.
ResolveVariables(pv, variables) ==
    [i \in DOMAIN pv |->
        IF pv[i] \in DOMAIN variables THEN variables[pv[i]] ELSE pv[i]]

\* const resolvedPv = widget.pv ? resolveVariables(widget.pv, ...) : null
ResolvedPv(widget, variables) ==
    IF Truthy(widget.pv) THEN ResolveVariables(widget.pv, variables) ELSE Null

\* The update handlePVUpdate runs for one relevant widget.
WidgetUpdate(v, widget, pvName, value) ==
    IF v.components /\ widget.type \in Registered
    THEN CASE widget.type = "numeric-display" -> NumericDisplayUpdate(value)
           [] widget.type = "motor-control" ->
                 MotorControlUpdate(ResolvedPv(widget, v.variables), pvName, value)
           [] OTHER -> NoWrite
    ELSE FallbackUpdate(value)

\* ------------------------------------------------------------ the viewer

\* An array that keeps every truthy entry of `pvs`, repeated or not.
AddAllRepeated(acc, pvs) == acc \o SelectSeq(pvs, Truthy)

\* Array.from(pvSet) after adding the truthy entries of `pvs` in order.
AddAll(acc, pvs) ==
    LET F[i \in 0..Len(pvs)] ==
            IF i = 0 THEN acc
            ELSE IF Truthy(pvs[i]) /\ pvs[i] \notin Range(F[i - 1])
                 THEN Append(F[i - 1], pvs[i])
                 ELSE F[i - 1]
    IN F[Len(pvs)]

\* The PVs of one widget taken from its pv alone, whatever its component
\* declares.
WidgetPVsOwnPv(v, widget) ==
    LET resolvedPv == ResolvedPv(widget, v.variables)
    IN IF Truthy(resolvedPv) THEN <<resolvedPv>> ELSE <<>>

\* What one widget contributes to the subscribe list.
WidgetPVs(v, widget) ==
    LET resolvedPv == ResolvedPv(widget, v.variables)
    IN IF v.components /\ widget.type \in Registered
       THEN GetSubscribePVs(widget.type, resolvedPv)
       ELSE IF Truthy(resolvedPv) THEN <<resolvedPv>> ELSE <<>>

\* DashboardViewer._collectPVs
CollectPVs(v) ==
    LET F[i \in 0..Len(v.widgets)] ==
            IF i = 0 THEN <<>>
            ELSE AddAll(F[i - 1], WidgetPVs(v, v.widgets[i]))
    IN F[Len(v.widgets)]

\* ws.send(msg): the message is logged with the readyState it was sent in.
ViewerSend(v, msg) ==
    [v EXCEPT !.sent = Append(@, [msg EXCEPT !.rs = v.ws])]

Msg(type, pvs, value) == [type |-> type, pvs |-> pvs, value |-> value, rs |-> NoSocket]

\* _scheduleReconnect doubling the delay with no cap.
ScheduleReconnectNoCap(v) ==
    IF v.reconnectTimer THEN v
    ELSE [v EXCEPT !.reconnectTimer = TRUE,
                   !.timers = @ + 1,
                   !.timerDelay = v.reconnectDelay,
                   !.sinceOpen = "retry",
                   !.reconnectDelay = v.reconnectDelay * 2]

\* _scheduleReconnect growing the delay by one floor per retry.
ScheduleReconnectLinear(v) ==
    IF v.reconnectTimer THEN v
    ELSE [v EXCEPT !.reconnectTimer = TRUE,
                   !.timers = @ + 1,
                   !.timerDelay = v.reconnectDelay,
                   !.sinceOpen = "retry",
                   !.reconnectDelay = Min(v.reconnectDelay + ReconnectFloor, maxReconnectDelay)]

\* DashboardViewer._scheduleReconnect
ScheduleReconnect(v) ==
    IF v.reconnectTimer THEN v
    ELSE [v EXCEPT !.reconnectTimer = TRUE,
                   !.timers = @ + 1,
                   !.timerDelay = v.reconnectDelay,
                   !.sinceOpen = "retry",
                   !.reconnectDelay = Min(v.reconnectDelay * 2, maxReconnectDelay)]

\* connectWebSocket giving up when the constructor throws.
ConnectWebSocketNoRetry(v, ok) ==
    LET c == IF v.reconnectTimer
             THEN [v EXCEPT !.reconnectTimer = FALSE, !.timers = @ - 1]
             ELSE v
        a == [c EXCEPT !.attempt = 1 - @]
    IN IF ok
       THEN [a EXCEPT !.ws = CONNECTING, !.sent = <<>>, !.lastOp = "connect"]
       ELSE [a EXCEPT !.lastOp = "connectFail"]

\* DashboardViewer.connectWebSocket; `ok` is whether new WebSocket(url)
\* returns a socket rather than throwing.
ConnectWebSocket(v, ok) ==
    LET c == IF v.reconnectTimer
             THEN [v EXCEPT !.reconnectTimer = FALSE, !.timers = @ - 1]
             ELSE v
        a == [c EXCEPT !.attempt = 1 - @]
    IN IF ok
       THEN [a EXCEPT !.ws = CONNECTING, !.sent = <<>>, !.lastOp = "connect"]
       ELSE [ScheduleReconnect(a) EXCEPT !.lastOp = "connectFail"]

\* onopen subscribing on the first connection only.
ViewerOnOpenFirstOnly(v) ==
    LET o == [v EXCEPT !.ws = OPEN,
                       !.retriedBeforeOpen = (v.sinceOpen = "retry"),
                       !.sinceOpen = "open",
                       !.reconnectDelay = ReconnectFloor,
                       !.lastOp = "onopen"]
        pvs == CollectPVs(o)
    IN IF Len(pvs) > 0 /\ v.sinceOpen = "start"
       THEN ViewerSend(o, Msg("subscribe", pvs, 0)) ELSE o

\* onopen leaving the backoff delay as it is.
ViewerOnOpenNoReset(v) ==
    LET o == [v EXCEPT !.ws = OPEN,
                       !.retriedBeforeOpen = (v.sinceOpen = "retry"),
                       !.sinceOpen = "open",
                       !.lastOp = "onopen"]
        pvs == CollectPVs(o)
    IN IF Len(pvs) > 0 THEN ViewerSend(o, Msg("subscribe", pvs, 0)) ELSE o

\* ws.onopen
ViewerOnOpen(v) ==
    LET o == [v EXCEPT !.ws = OPEN,
                       !.retriedBeforeOpen = (v.sinceOpen = "retry"),
                       !.sinceOpen = "open",
                       !.reconnectDelay = ReconnectFloor,
                       !.lastOp = "onopen"]
        pvs == CollectPVs(o)
    IN IF Len(pvs) > 0 THEN ViewerSend(o, Msg("subscribe", pvs, 0)) ELSE o

\* onclose opening the next socket at once as well as arming the timer.
ViewerOnCloseConnectsToo(v) ==
    [ScheduleReconnect([v EXCEPT !.ws = CONNECTING]) EXCEPT !.lastOp = "onclose"]

\* ws.onclose
ViewerOnClose(v) ==
    [ScheduleReconnect([v EXCEPT !.ws = NoSocket]) EXCEPT !.lastOp = "onclose"]

\* handlePut sending whatever the socket's state.
HandlePutUnguarded(v, pv, value) ==
    [ViewerSend(v, Msg("put", <<pv>>, value)) EXCEPT !.lastOp = "put"]

\* handlePut treating a socket that is not open as a fault to recover from.
HandlePutReconnects(v, pv, value) ==
    IF v.ws = NoSocket \/ v.ws # OPEN
    THEN [ScheduleReconnect(v) EXCEPT !.lastOp = "putDropped"]
    ELSE [ViewerSend(v, Msg("put", <<pv>>, value)) EXCEPT !.lastOp = "put"]

\* DashboardViewer.handlePut
HandlePut(v, pv, value) ==
    IF v.ws = NoSocket \/ v.ws # OPEN
    THEN [v EXCEPT !.lastOp = "putDropped"]
    ELSE [ViewerSend(v, Msg("put", <<pv>>, value)) EXCEPT !.lastOp = "put"]

\* An inbound frame: text JSON.parse rejects (kind "malformed"), a message
\* whose type is not pv_update (kind "other"), or a pv_update with its pv
\* and value fields; pv Null is a pv_update whose pv is null.
Frame(kind, pv, value) == [kind |-> kind, pv |-> pv, value |-> value]
NoMsg == Frame("none", Null, NoValue)

\* The loop test of handlePVUpdate: does this widget care about pvName.
Relevant(v, widget, pvName) ==
    LET resolvedPv == ResolvedPv(widget, v.variables)
    IN IF v.components /\ widget.type \in Registered
       THEN pvName \in Range(GetSubscribePVs(widget.type, resolvedPv))
       ELSE resolvedPv = pvName

\* handlePVUpdate stopping at the first widget that cares.
HandlePVUpdateFirstOnly(v, pvName, value) ==
    LET hit == {i \in DOMAIN v.widgets : Relevant(v, v.widgets[i], pvName)}
    IN [v EXCEPT !.routed = {i \in hit : \A j \in hit : i <= j},
                 !.shown = [i \in {i \in hit : \A j \in hit : i <= j} |->
                               WidgetUpdate(v, v.widgets[i], pvName, value)]]

\* DashboardViewer.handlePVUpdate: the renderer's update (or the fallback
\* text update) runs for every rendered widget that passes the loop test.
HandlePVUpdate(v, pvName, value) ==
    LET hit == {i \in DOMAIN v.widgets : Relevant(v, v.widgets[i], pvName)}
    IN [v EXCEPT !.routed = hit,
                 !.shown = [i \in hit |-> WidgetUpdate(v, v.widgets[i], pvName, value)]]

\* onmessage letting the parse error of a malformed frame close the socket.
ViewerOnMessageStrict(v, msg) ==
    LET m == [v EXCEPT !.lastMsg = msg, !.routed = {}, !.shown = <<>>]
    IN CASE msg.kind = "malformed" ->
               [ScheduleReconnect([m EXCEPT !.ws = NoSocket]) EXCEPT !.lastOp = "msgMalformed"]
         [] msg.kind = "pv_update" ->
               [HandlePVUpdate(m, msg.pv, msg.value) EXCEPT !.lastOp = "pv_update"]
         [] OTHER -> [m EXCEPT !.lastOp = "msgIgnored"]

\* ws.onmessage: JSON.parse inside try/catch, then handlePVUpdate for a
\* pv_update.
ViewerOnMessage(v, msg) ==
    LET m == [v EXCEPT !.lastMsg = msg, !.routed = {}, !.shown = <<>>]
    IN CASE msg.kind = "malformed" -> [m EXCEPT !.lastOp = "msgMalformed"]
         [] msg.kind = "pv_update" ->
               [HandlePVUpdate(m, msg.pv, msg.value) EXCEPT !.lastOp = "pv_update"]
         [] OTHER -> [m EXCEPT !.lastOp = "msgIgnored"]

\* The dashboards the model loads: widgetList, variables, and whether
\* components.js registered window.EIWYG_COMPONENTS before the timeout.
ViewerWidget ==
    {[type |-> "numeric-display", pv |-> Null],
     [type |-> "numeric-display", pv |-> <<"A">>],
     [type |-> "numeric-display", pv |-> <<"$P">>],
     [type |-> "motor-control", pv |-> EmptyStr],
     [type |-> "motor-control", pv |-> <<"A">>],
     [type |-> "label", pv |-> <<"A">>],
     [type |-> "custom", pv |-> Null],
     [type |-> "custom", pv |-> <<"A", ":RBV">>]}
ViewerWidgetLists ==
    UNION {[1..n -> ViewerWidget] : n \in 0..MaxViewerWidgets}
ViewerVariables == {<<>>, [x \in {"$P"} |-> "A"]}

PutPVs == {<<"A">>}
PutValues == {1}

\* The frames the server side of the model sends to a viewer.
InboundPVs == {<<"A">>, <<"A", ":RBV">>, <<"B">>, Null}
InboundValues == {"1"}
NonNumericValues == {"\"abc\""}
NonNumericPVs == {<<"A">>, <<"A", ":RBV">>}
InboundFrames ==
    {Frame("malformed", Null, NoValue), Frame("other", Null, NoValue)}
      \cup {Frame("pv_update", pv, value) : pv \in InboundPVs, value \in InboundValues}
      \cup {Frame("pv_update", pv, value) : pv \in NonNumericPVs, value \in NonNumericValues}

NumPuts(sent) == Cardinality({i \in DOMAIN sent : sent[i].type = "put"})

\* A viewer page's run explores either the puts its widgets request (mode
\* "viewer") or the frames the server sends it (mode "inbound"), on top of
\* the same connection life cycle.
ViewerModes == {"viewer", "inbound"}

\* new DashboardViewer()
ViewerInit ==
    [phase |-> "init",
     widgets |-> <<>>,
     variables |-> <<>>,
     components |-> FALSE,
     ws |-> NoSocket,
     reconnectDelay |-> ReconnectFloor,
     reconnectTimer |-> FALSE,
     \* bookkeeping of the run, not fields of the object
     timers |-> 0,            \* pending setTimeout callbacks
     timerDelay |-> 0,        \* delay of the latest setTimeout
     sinceOpen |-> "start",   \* start | open | retry: what happened last
     retriedBeforeOpen |-> FALSE, \* the latest onopen followed a failure
     attempt |-> 0,           \* parity of the connectWebSocket calls
     sent |-> <<>>,           \* messages sent on the current socket
     lastMsg |-> NoMsg,       \* the frame, when the handler that ran last was onmessage
     routed |-> {},           \* the widgets whose update that handler ran
     shown |-> <<>>,          \* what the update of each of them wrote
     lastOp |-> "new"]

\* Another handler than onmessage runs next.
ViewerRan(v) == [v EXCEPT !.lastMsg = NoMsg, !.routed = {}, !.shown = <<>>]

\* DashboardViewer.init, the load succeeding: the widgets are indexed and
\* rendered and connectWebSocket is called.
ViewerLoad ==
    /\ mode \in ViewerModes
    /\ viewer.phase = "init"
    /\ \E ws \in ViewerWidgetLists, vs \in ViewerVariables, comps \in BOOLEAN, ok \in BOOLEAN :
          viewer' = ConnectWebSocket(
                        [viewer EXCEPT !.phase = "running", !.widgets = ws,
                                       !.variables = vs, !.components = comps], ok)
    /\ UNCHANGED <<mode, editor, plot, motor>>

\* DashboardViewer.init, no slug or loadDashboard returning false.
ViewerLoadFail ==
    /\ mode \in ViewerModes
    /\ viewer.phase = "init"
    /\ viewer' = [viewer EXCEPT !.phase = "failed", !.lastOp = "loadFail"]
    /\ UNCHANGED <<mode, editor, plot, motor>>

\* The reconnect timeout fires.
ViewerTimerFire ==
    /\ mode \in ViewerModes
    /\ viewer.timers > 0
    /\ \E ok \in BOOLEAN :
          viewer' = ConnectWebSocket(
                        [ViewerRan(viewer) EXCEPT !.reconnectTimer = FALSE, !.timers = @ - 1], ok)
    /\ UNCHANGED <<mode, editor, plot, motor>>

\* The connection is established: readyState becomes OPEN and onopen runs.
ViewerSocketOpen ==
    /\ mode \in ViewerModes
    /\ viewer.ws = CONNECTING
    /\ viewer' = ViewerOnOpen(ViewerRan(viewer))
    /\ UNCHANGED <<mode, editor, plot, motor>>

\* The closing handshake starts: readyState becomes CLOSING, no handler runs.
ViewerSocketClosing ==
    /\ mode \in ViewerModes
    /\ viewer.ws = OPEN
    /\ viewer' = [ViewerRan(viewer) EXCEPT !.ws = CLOSING, !.lastOp = "closing"]
    /\ UNCHANGED <<mode, editor, plot, motor>>

\* The connection is closed or could not be made: onerror (a log line), then
\* onclose.
ViewerSocketClose ==
    /\ mode \in ViewerModes
    /\ viewer.ws \in {CONNECTING, OPEN, CLOSING}
    /\ viewer' = ViewerOnClose(ViewerRan(viewer))
    /\ UNCHANGED <<mode, editor, plot, motor>>

\* A widget dispatches pv-put.
ViewerPut ==
    /\ mode = "viewer"
    /\ viewer.phase = "running"
    /\ NumPuts(viewer.sent) < MaxPuts
    /\ \E pv \in PutPVs, value \in PutValues : viewer' = HandlePut(viewer, pv, value)
    /\ UNCHANGED <<mode, editor, plot, motor>>

ViewerNext ==
    \/ ViewerLoad
    \/ ViewerLoadFail
    \/ ViewerTimerFire
    \/ ViewerSocketOpen
    \/ ViewerSocketClosing
    \/ ViewerSocketClose
    \/ ViewerPut

\* A frame arrives on the open socket: onmessage runs.
ViewerMessage ==
    /\ mode = "inbound"
    /\ viewer.ws = OPEN
    /\ \E msg \in InboundFrames : viewer' = ViewerOnMessage(viewer, msg)
    /\ UNCHANGED <<mode, editor, plot, motor>>

InboundNext == ViewerMessage

\* ------------------------------------------------------------ the editor

\* Largest numeric part of a widget id ('widget-N') the model hands out.
MaxWidgetId == 2

\* ws.send(msg) in the editor: the message is logged with the readyState it
\* was sent in and the server applies it to the connection's subscriptions
\* (subscribe and unsubscribe are idempotent set operations).
EditorSend(e, msg) ==
    [e EXCEPT !.sent = Append(@, [msg EXCEPT !.rs = e.ws]),
              !.server = CASE msg.type = "subscribe" -> @ \cup msg.pvs
                           [] msg.type = "unsubscribe" -> @ \ msg.pvs
                           [] OTHER -> @]

\* The non-empty pv values of the current widgets.
CurrentPVs(e) ==
    {e.widgets[i].pv : i \in {j \in DOMAIN e.widgets : Truthy(e.widgets[j].pv)}}

\* A sync that sends its two messages whenever the socket is open, empty
\* diff or not.
SyncPVSubscriptionsAlways(e) ==
    LET currentPVs == CurrentPVs(e)
        u == IF e.ws = OPEN
             THEN EditorSend(e, Msg("unsubscribe", e.subscribedPVs \ currentPVs, 0))
             ELSE e
        s == IF e.ws = OPEN
             THEN EditorSend(u, Msg("subscribe", currentPVs \ e.subscribedPVs, 0))
             ELSE u
    IN [s EXCEPT !.subscribedPVs = currentPVs]

\* EditorApp._syncPVSubscriptions
SyncPVSubscriptions(e) ==
    LET currentPVs == CurrentPVs(e)
        toUnsub == e.subscribedPVs \ currentPVs
        u == IF toUnsub # {} /\ e.ws = OPEN
             THEN EditorSend(e, Msg("unsubscribe", toUnsub, 0))
             ELSE e
        toSub == currentPVs \ e.subscribedPVs
        s == IF toSub # {} /\ e.ws = OPEN
             THEN EditorSend(u, Msg("subscribe", toSub, 0))
             ELSE u
    IN [s EXCEPT !.subscribedPVs = currentPVs]

\* EditorApp._sendPut
SendPut(e, pv, value) ==
    IF e.ws = OPEN THEN EditorSend(e, Msg("put", {pv}, value)) ELSE e

\* EditorApp.initWebSocket; `ok` is whether new WebSocket(url) returns a
\* socket rather than throwing.  A new connection starts with no
\* subscriptions on the server.
InitWebSocket(e, ok) ==
    IF ok
    THEN [e EXCEPT !.ws = CONNECTING, !.server = {}, !.reconnected = (e.lastOp # "new"),
                   !.puts = 0, !.lastOp = "connect"]
    ELSE [e EXCEPT !.lastOp = "connectFail"]

\* The socket's 'open' listener.
EditorOnOpen(e) ==
    SyncPVSubscriptions([e EXCEPT !.ws = OPEN, !.lastOp = "onopen"])

\* The socket's 'close' listener: setTimeout(() => this.initWebSocket(), 3000).
EditorOnClose(e) ==
    [e EXCEPT !.ws = CLOSED, !.timers = @ + 1, !.lastOp = "onclose"]

\* An 'error' listener that schedules a reconnect of its own.
EditorOnErrorRetry(e) == [e EXCEPT !.timers = @ + 1]

\* The socket's 'error' listener: console.warn only.
EditorOnError(e) == e

\* EditorApp.addWidget(type, x, y, w, h, existingId, existingConfig,
\* existingPv); existingId 0 stands for undefined.
AddWidget(e, existingId, existingPv) ==
    LET id == IF existingId # 0 THEN existingId ELSE e.nextWidgetId
        n1 == IF existingId # 0 THEN e.nextWidgetId ELSE e.nextWidgetId + 1
        n2 == IF id >= n1 THEN id + 1 ELSE n1
        widget == [pv |-> IF Truthy(existingPv) THEN existingPv ELSE Null,
                   currentValue |-> NoValue]
        a == [e EXCEPT !.nextWidgetId = n2,
                       !.widgets = [i \in DOMAIN e.widgets \cup {id} |->
                                       IF i = id THEN widget ELSE e.widgets[i]]]
    IN IF Truthy(widget.pv) THEN SyncPVSubscriptions(a) ELSE a

\* EditorApp.updateWidgetConfig(id, {pv})
UpdateWidgetPv(e, id, pv) ==
    IF id \notin DOMAIN e.widgets THEN e
    ELSE SyncPVSubscriptions([e EXCEPT !.widgets[id].pv = pv])

\* removeWidget without the trailing _syncPVSubscriptions.
RemoveWidgetNoSync(e, id) ==
    IF id \notin DOMAIN e.widgets THEN e
    ELSE [e EXCEPT !.widgets = [i \in DOMAIN e.widgets \ {id} |-> e.widgets[i]]]

\* removeWidget unsubscribing from the removed widget's PV whoever else
\* uses it.
RemoveWidgetUnsubscribes(e, id) ==
    IF id \notin DOMAIN e.widgets THEN e
    ELSE LET r == [e EXCEPT !.widgets = [i \in DOMAIN e.widgets \ {id} |-> e.widgets[i]]]
             gone == IF Truthy(e.widgets[id].pv) THEN {e.widgets[id].pv} ELSE {}
         IN IF gone # {} /\ e.ws = OPEN
            THEN [EditorSend(r, Msg("unsubscribe", gone, 0))
                     EXCEPT !.subscribedPVs = CurrentPVs(r)]
            ELSE [r EXCEPT !.subscribedPVs = CurrentPVs(r)]

\* EditorApp.removeWidget
RemoveWidget(e, id) ==
    IF id \notin DOMAIN e.widgets THEN e
    ELSE SyncPVSubscriptions(
            [e EXCEPT !.widgets = [i \in DOMAIN e.widgets \ {id} |-> e.widgets[i]]])

\* EditorApp.loadConfig; NoConfig stands for a config that is null or has
\* no widgets list.
NoConfig == <<[id |-> 0, pv |-> <<"<none>">>]>>
LoadConfig(e, config) ==
    LET cleared == [e EXCEPT !.widgets = <<>>]
        F[i \in 0..Len(config)] ==
            IF i = 0 THEN cleared
            ELSE AddWidget(F[i - 1], config[i].id, config[i].pv)
    IN IF config = NoConfig THEN cleared
       ELSE SyncPVSubscriptions(F[Len(config)])

\* A _handlePVUpdate that hands the value to every widget.
EditorHandlePVUpdateAll(e, pv, value) ==
    [e EXCEPT !.widgets = [i \in DOMAIN e.widgets |->
                              [e.widgets[i] EXCEPT !.currentValue = value]]]

\* EditorApp._handlePVUpdate
EditorHandlePVUpdate(e, pv, value) ==
    [e EXCEPT !.widgets = [i \in DOMAIN e.widgets |->
                              IF e.widgets[i].pv = pv
                              THEN [e.widgets[i] EXCEPT !.currentValue = value]
                              ELSE e.widgets[i]]]

\* The socket's 'message' listener: JSON.parse inside try/catch, then
\* _handlePVUpdate for a pv_update that names a pv.
EditorOnMessage(e, msg) ==
    LET m == [e EXCEPT !.lastMsg = msg]
    IN CASE msg.kind = "malformed" -> [m EXCEPT !.lastOp = "msgMalformed"]
         [] msg.kind = "pv_update" /\ Truthy(msg.pv) ->
               [EditorHandlePVUpdate(m, msg.pv, msg.value) EXCEPT !.lastOp = "pv_update"]
         [] OTHER -> [m EXCEPT !.lastOp = "msgIgnored"]

\* The handler that ran last, and the messages it sent.
EditorRan(e, op) == [e EXCEPT !.lastOp = op, !.sent = <<>>, !.lastMsg = NoMsg]

EditorPVs == {<<"A">>, <<"B">>}

\* Layout documents the editor loads (from the API or from the assistant).
EditorConfigs ==
    {NoConfig,
     <<>>,
     <<[id |-> 1, pv |-> <<"A">>]>>,
     <<[id |-> 0, pv |-> <<"B">>]>>,
     <<[id |-> 1, pv |-> <<"A">>], [id |-> 2, pv |-> <<"A">>]>>,
     <<[id |-> 1, pv |-> <<"A">>], [id |-> 2, pv |-> Null]>>}

\* The frames the server side of the model sends to an editor.
EditorValues == {"1", "2"}
EditorFrames ==
    {Frame("malformed", Null, NoValue), Frame("other", Null, NoValue)}
      \cup {Frame("pv_update", pv, value) : pv \in EditorPVs \cup {Null}, value \in EditorValues}

\* An editor page's run explores either the layouts it loads and the puts
\* it sends (mode "editor") or the frames the server sends it, on a page
\* opened without a slug (mode "editorInbound"), on top of the same
\* connection life cycle and widget edits.
EditorModes == {"editor", "editorInbound"}

\* The state before new EditorApp() runs _init.
EditorInit ==
    [widgets |-> <<>>,
     nextWidgetId |-> 1,
     subscribedPVs |-> {},
     ws |-> NoSocket,
     \* bookkeeping of the run, not fields of the object
     fetching |-> FALSE,      \* _loadExistingDashboard awaits its response
     timers |-> 0,            \* pending setTimeout callbacks
     server |-> {},           \* PVs the server holds for the current socket
     sent |-> <<>>,           \* messages sent by the handler that ran last
     lastMsg |-> NoMsg,       \* the frame, when that handler was the 'message' listener
     puts |-> 0,              \* put requests made on the current socket
     reconnected |-> FALSE,   \* the current socket replaced an earlier one
     lastOp |-> "new"]

\* EditorApp._init: initWebSocket, then _loadExistingDashboard when the
\* URL names a slug.
EditorStart ==
    /\ mode \in EditorModes
    /\ editor.lastOp = "new"
    /\ \E ok \in BOOLEAN, slug \in (IF mode = "editor" THEN BOOLEAN ELSE {FALSE}) :
          editor' = [InitWebSocket(EditorRan(editor, "new"), ok) EXCEPT !.fetching = slug,
                        !.lastOp = IF ok THEN "connect" ELSE "connectFail"]
    /\ UNCHANGED <<mode, viewer, plot, motor>>

\* The reconnect timeout fires.
EditorTimerFire ==
    /\ mode \in EditorModes
    /\ editor.timers > 0
    /\ \E ok \in BOOLEAN :
          editor' = InitWebSocket([EditorRan(editor, "timer") EXCEPT !.timers = @ - 1], ok)
    /\ UNCHANGED <<mode, viewer, plot, motor>>

\* The connection is established: readyState becomes OPEN, 'open' fires.
EditorSocketOpen ==
    /\ mode \in EditorModes
    /\ editor.ws = CONNECTING
    /\ editor' = EditorOnOpen(EditorRan(editor, "onopen"))
    /\ UNCHANGED <<mode, viewer, plot, motor>>

\* The closing handshake starts: readyState becomes CLOSING, no handler runs.
EditorSocketClosing ==
    /\ mode \in EditorModes
    /\ editor.ws = OPEN
    /\ editor' = [EditorRan(editor, "closing") EXCEPT !.ws = CLOSING]
    /\ UNCHANGED <<mode, viewer, plot, motor>>

\* The connection is closed or could not be made: readyState becomes CLOSED,
\* 'error' fires when it failed, then 'close'.
EditorSocketClose ==
    /\ mode \in EditorModes
    /\ editor.ws \in {CONNECTING, OPEN, CLOSING}
    /\ editor' = EditorOnClose(EditorOnError(EditorRan(editor, "onclose")))
    /\ UNCHANGED <<mode, viewer, plot, motor>>

\* A palette item is dropped on the grid: addWidget(type, x, y).
EditorDrop ==
    /\ mode \in EditorModes
    /\ editor.lastOp # "new"
    /\ editor.nextWidgetId <= MaxWidgetId
    /\ editor' = AddWidget(EditorRan(editor, "addWidget"), 0, Null)
    /\ UNCHANGED <<mode, viewer, plot, motor>>

\* The PV field of the config panel changes: updateWidgetConfig(id, {pv}).
EditorSetPv ==
    /\ mode \in EditorModes
    /\ \E id \in DOMAIN editor.widgets, pv \in EditorPVs \cup {EmptyStr} :
          editor' = UpdateWidgetPv(EditorRan(editor, "updateWidgetConfig"), id, pv)
    /\ UNCHANGED <<mode, viewer, plot, motor>>

\* The delete button or key: removeWidget(id).
EditorRemove ==
    /\ mode \in EditorModes
    /\ \E id \in DOMAIN editor.widgets :
          editor' = RemoveWidget(EditorRan(editor, "removeWidget"), id)
    /\ UNCHANGED <<mode, viewer, plot, motor>>

\* _loadExistingDashboard's response arrives with a config: loadConfig.
EditorFetchDone ==
    /\ mode = "editor"
    /\ editor.fetching
    /\ \E config \in EditorConfigs :
          /\ LoadConfig(editor, config).nextWidgetId <= MaxWidgetId + 1
          /\ editor' = [LoadConfig(EditorRan(editor, "loadConfig"), config) EXCEPT !.fetching = FALSE]
    /\ UNCHANGED <<mode, viewer, plot, motor>>

\* _loadExistingDashboard fails, or its response has no config.
EditorFetchFail ==
    /\ mode = "editor"
    /\ editor.fetching
    /\ editor' = [EditorRan(editor, "fetchFail") EXCEPT !.fetching = FALSE]
    /\ UNCHANGED <<mode, viewer, plot, motor>>

\* 'Apply Suggested Config' of the assistant: loadConfig(suggestedConfig).
EditorApplyConfig ==
    /\ mode = "editor"
    /\ editor.lastOp # "new"
    /\ \E config \in EditorConfigs :
          /\ LoadConfig(editor, config).nextWidgetId <= MaxWidgetId + 1
          /\ editor' = LoadConfig(EditorRan(editor, "loadConfig"), config)
    /\ UNCHANGED <<mode, viewer, plot, motor>>

\* _sendPut(pv, value)
EditorPut ==
    /\ mode = "editor"
    /\ editor.lastOp # "new"
    /\ editor.puts < MaxPuts
    /\ \E pv \in PutPVs, value \in PutValues :
          editor' = [SendPut(EditorRan(editor, "sendPut"), pv, value) EXCEPT !.puts = @ + 1]
    /\ UNCHANGED <<mode, viewer, plot, motor>>

\* A frame arrives on the open socket: the 'message' listener runs.
EditorMessage ==
    /\ mode = "editorInbound"
    /\ editor.ws = OPEN
    /\ \E msg \in EditorFrames :
          editor' = EditorOnMessage(EditorRan(editor, "message"), msg)
    /\ UNCHANGED <<mode, viewer, plot, motor>>

EditorNext ==
    \/ EditorStart
    \/ EditorTimerFire
    \/ EditorSocketOpen
    \/ EditorSocketClosing
    \/ EditorSocketClose
    \/ EditorDrop
    \/ EditorSetPv
    \/ EditorRemove
    \/ EditorFetchDone
    \/ EditorFetchFail
    \/ EditorApplyConfig
    \/ EditorPut
    \/ EditorMessage

\* ------------------------------------------------- the plot's time series

\* Updates the model feeds one plot, updates it feeds a plot whose history
\* response it follows, length of a history response, and the seconds the
\* model's clock runs to.
MaxUpdates == 4
MaxLive == 2
MaxHist == 2
MaxNowSec == 3
\* PV changes of the plot widget in a run.
MaxRepoints == 1
\* The buffers a compaction is tried on: 8 * j points bunched at the start,
\* j up to MaxBunch.
MaxBunch == 59
\* Length of the short buffers of points that share one timestamp.
MaxFlat == 4

\* cfg(widget, 'maxPoints', 500) and cfg(widget, 'timeWindow', 3600).
DefaultMaxPoints == 500
DefaultTimeWindow == 3600

\* cfg(widget, key, fallback)
Cfg(widget, key, fallback) ==
    IF widget.config[key] # Unset THEN widget.config[key] ELSE fallback

\* while (p.t >= binStart + binWidth) binStart += binWidth
RECURSIVE SkipBins(_, _, _)
SkipBins(binStart, binWidth, t) ==
    IF NumLeq(NumAdd(binStart, binWidth), t)
    THEN SkipBins(NumAdd(binStart, binWidth), binWidth, t)
    ELSE binStart

\* A bin's point placed at the start of the bin.
BinAtStart(a) == [t |-> a.binStart, v |-> NumDiv(a.vSum, a.count)]

\* The one bin a loop without bin width collects: the first point stands
\* for the points of one timestamp.
MeanPoint(data) == data[1]

\* { t: tSum / count, v: vSum / count }
BinAverage(a) == [t |-> NumDiv(a.tSum, a.count), v |-> NumDiv(a.vSum, a.count)]

\* The binning loop with a count that is not reset when a bin is emitted.
BinsKeepCount(data, binWidth) ==
    LET F[i \in 0..Len(data)] ==
            IF i = 0
            THEN [binned |-> <<>>, binStart |-> data[1].t,
                  tSum |-> FromInt(0), vSum |-> FromInt(0), count |-> 0]
            ELSE LET a == F[i - 1]
                     p == data[i]
                     b == IF NumLeq(NumAdd(a.binStart, binWidth), p.t) /\ a.count > 0
                          THEN [a EXCEPT !.binned = Append(@, BinAverage(a)),
                                         !.tSum = FromInt(0), !.vSum = FromInt(0),
                                         !.binStart = SkipBins(NumAdd(@, binWidth), binWidth, p.t)]
                          ELSE a
                 IN [b EXCEPT !.tSum = NumAdd(@, p.t), !.vSum = NumAdd(@, p.v),
                              !.count = @ + 1]
        last == F[Len(data)]
    IN IF last.count > 0 THEN Append(last.binned, BinAverage(last)) ELSE last.binned

\* One pass of the binning loop's body for the point p.
BinStep(a, p, binWidth) ==
    LET b == IF NumLeq(NumAdd(a.binStart, binWidth), p.t) /\ a.count > 0
             THEN [a EXCEPT !.binned = Append(@, BinAverage(a)),
                            !.tSum = FromInt(0), !.vSum = FromInt(0),
                            !.count = 0,
                            !.binStart = SkipBins(NumAdd(@, binWidth), binWidth, p.t)]
             ELSE a
    IN [b EXCEPT !.tSum = NumAdd(@, p.t), !.vSum = NumAdd(@, p.v), !.count = @ + 1]

\* The binning loop over data[lo..hi] in index order, from the loop state a:
\* the passes over data[lo..mid], then those over the rest from the state
\* they leave (which has counted a point, so the test only orders the
\* evaluation).
RECURSIVE BinLoop(_, _, _, _, _)
BinLoop(a, data, lo, hi, binWidth) ==
    IF lo > hi THEN a
    ELSE IF lo = hi THEN BinStep(a, data[lo], binWidth)
    ELSE LET mid == (lo + hi) \div 2
             left == BinLoop(a, data, lo, mid, binWidth)
         IN IF left.count = 0 THEN left
            ELSE BinLoop(left, data, mid + 1, hi, binWidth)

\* The binning loop of _plotCompact and the push of the last bin.
Bins(data, binWidth) ==
    LET last == BinLoop([binned |-> <<>>, binStart |-> data[1].t,
                         tSum |-> FromInt(0), vSum |-> FromInt(0), count |-> 0],
                        data, 1, Len(data), binWidth)
    IN IF last.count > 0 THEN Append(last.binned, BinAverage(last)) ELSE last.binned

\* _plotCompact without the test of binWidth.
PlotCompactAnyWidth(state) ==
    LET target == state.maxPoints
        data == state.data
    IN IF Len(data) <= target THEN state
       ELSE [state EXCEPT !.data = <<MeanPoint(data)>>,
                          !.compacted = TRUE,
                          !.compactIn = data,
                          !.compactOut = <<MeanPoint(data)>>]

\* _plotCompact(state); compactIn and compactOut keep the buffer it replaced
\* and the one it produced.
PlotCompact(state) ==
    LET target == state.maxPoints
        data == state.data
    IN IF Len(data) <= target THEN state
       ELSE LET tMin == data[1].t
                tMax == data[Len(data)].t
                binWidth == NumDiv(NumSub(tMax, tMin), target)
            IN IF NumLeq(binWidth, FromInt(0)) THEN state
               ELSE [state EXCEPT !.data = Bins(data, binWidth),
                                  !.compacted = TRUE,
                                  !.compactIn = data,
                                  !.compactOut = Bins(data, binWidth)]

\* while (state.data.length > 0 && state.data[0].t < cutoff) state.data.shift()
RECURSIVE Prune(_, _)
Prune(data, cutoff) ==
    IF Len(data) > 0 /\ NumLt(data[1].t, cutoff) THEN Prune(Tail(data), cutoff) ELSE data

\* _plotFetchHistory(container, widget) up to the fetch call: the request
\* for the widget's PV is on its way.
PlotFetchHistory(state, widget) ==
    IF ~Truthy(widget.pv) THEN state
    ELSE [state EXCEPT !.fetches = Append(@, widget.pv)]

\* The timestamp of the point an update appends, in ms: the message's when
\* it has one (0 stands for a missing or zero timestamp), else Date.now().
PointTime(timestamp, now) == IF timestamp # 0 THEN timestamp * 1000 ELSE now

\* The bookkeeping of the handler that runs next.
PlotRan(state, op) ==
    [state EXCEPT !.lastOp = op, !.lastValue = NoValue, !.lastHist = <<>>,
                  !.lastFetch = Null,
                  !.compacted = FALSE, !.compactIn = <<>>, !.compactOut = <<>>]

\* update keeping the buffer when the widget's PV has changed.
PlotUpdateKeepsBuffer(state, widget, pvData) ==
    LET s == [state EXCEPT !.maxPoints = Cfg(widget, "maxPoints", DefaultMaxPoints),
                           !.timeWindow = Cfg(widget, "timeWindow", DefaultTimeWindow) * 1000,
                           !.lastValue = pvData.value, !.updates = @ + 1]
        ts == PointTime(pvData.timestamp, state.now)
        val == ParseFloat(pvData.value)
    IN IF Truthy(widget.pv) /\ widget.pv # s.pv
       THEN [PlotFetchHistory([s EXCEPT !.pv = widget.pv], widget)
                EXCEPT !.lastOp = "updateReset"]
       ELSE IF IsNaN(val) THEN [s EXCEPT !.lastOp = "updateDropped"]
       ELSE LET pushed == [s EXCEPT !.data = Append(@, [t |-> FromInt(ts), v |-> val])]
                c == IF 2 * Len(pushed.data) > 3 * pushed.maxPoints
                     THEN PlotCompact(pushed) ELSE pushed
                cutoff == FromInt(state.now - c.timeWindow)
            IN [c EXCEPT !.data = Prune(@, cutoff), !.lastOp = "update"]

\* The plot component's update(container, widget, pvName, pvData).
PlotUpdate(state, widget, pvData) ==
    LET s == [state EXCEPT !.maxPoints = Cfg(widget, "maxPoints", DefaultMaxPoints),
                           !.timeWindow = Cfg(widget, "timeWindow", DefaultTimeWindow) * 1000,
                           !.lastValue = pvData.value, !.updates = @ + 1]
        ts == PointTime(pvData.timestamp, state.now)
        val == ParseFloat(pvData.value)
    IN IF Truthy(widget.pv) /\ widget.pv # s.pv
       THEN [PlotFetchHistory([s EXCEPT !.pv = widget.pv, !.data = <<>>,
                                        !.historyLoaded = FALSE], widget)
                EXCEPT !.lastOp = "updateReset"]
       ELSE IF IsNaN(val) THEN [s EXCEPT !.lastOp = "updateDropped"]
       ELSE LET pushed == [s EXCEPT !.data = Append(@, [t |-> FromInt(ts), v |-> val])]
                c == IF 2 * Len(pushed.data) > 3 * pushed.maxPoints
                     THEN PlotCompact(pushed) ELSE pushed
                cutoff == FromInt(state.now - c.timeWindow)
            IN [c EXCEPT !.data = Prune(@, cutoff), !.lastOp = "update"]

\* json.data of a history response that has none.
NoData == <<[t |-> -1, v |-> -1]>>

\* The history merge keeping the live points at or after the last history
\* point.
PlotMergeInclusive(state, json) ==
    IF json = NoData THEN [state EXCEPT !.lastOp = "mergeNoData"]
    ELSE LET hist == [i \in DOMAIN json |->
                         [t |-> FromInt(json[i].t * 1000), v |-> FromInt(json[i].v)]]
             liveData == SelectSeq(state.data,
                            LAMBDA p : Len(hist) = 0 \/ NumLeq(hist[Len(hist)].t, p.t))
         IN [state EXCEPT !.data = hist \o liveData, !.historyLoaded = TRUE,
                          !.lastHist = json, !.lastOp = "merge"]

\* The history merge without the filter on the live points.
PlotMergeKeepAll(state, json) ==
    IF json = NoData THEN [state EXCEPT !.lastOp = "mergeNoData"]
    ELSE LET hist == [i \in DOMAIN json |->
                         [t |-> FromInt(json[i].t * 1000), v |-> FromInt(json[i].v)]]
         IN [state EXCEPT !.data = hist \o state.data, !.historyLoaded = TRUE,
                          !.lastHist = json, !.lastOp = "merge"]

\* The then-callback of _plotFetchHistory's fetch; json is json.data.
PlotMerge(state, json) ==
    IF json = NoData THEN [state EXCEPT !.lastOp = "mergeNoData"]
    ELSE LET hist == [i \in DOMAIN json |->
                         [t |-> FromInt(json[i].t * 1000), v |-> FromInt(json[i].v)]]
             liveData == SelectSeq(state.data,
                            LAMBDA p : Len(hist) = 0 \/ NumLt(hist[Len(hist)].t, p.t))
         IN [state EXCEPT !.data = hist \o liveData, !.historyLoaded = TRUE,
                          !.lastHist = json, !.lastOp = "merge"]

\* A catch-callback that gives up the buffer.
PlotFetchFailedClears(state) == [state EXCEPT !.data = <<>>, !.lastOp = "fetchFail"]

\* The catch-callback of _plotFetchHistory's fetch: console.warn only.
PlotFetchFailed(state) == [state EXCEPT !.lastOp = "fetchFail"]

\* The widgets the model renders a plot for.
PlotPVs == {<<"A">>}

\* The PVs a rendered plot widget is re-pointed between.
RepointPVs == {<<"A">>, <<"B">>}

\* The sequence without its i-th element.
Without(seq, i) == SubSeq(seq, 1, i - 1) \o SubSeq(seq, i + 1, Len(seq))
PlotConfigs ==
    {[maxPoints |-> 1, timeWindow |-> 1],
     [maxPoints |-> 2, timeWindow |-> 1],
     [maxPoints |-> 1, timeWindow |-> Unset]}
PlotWidgets == {[pv |-> pv, config |-> c] : pv \in PlotPVs, c \in PlotConfigs}

\* A plot's run explores a long feed of updates while the history response
\* is outstanding (mode "plot"), a short feed and the history response (mode
\* "plotHistory"), or a short feed without timestamps, PV changes of the
\* widget and short history responses at a fixed time (mode "plotRepoint"),
\* or a long feed and a reduction of the widget's maxPoints or timeWindow on
\* a page without Chart.js, where render starts no history fetch (mode
\* "plotConfig").
PlotModes == {"plot", "plotHistory", "plotRepoint", "plotConfig"}
HistoryModes == {"plotHistory", "plotRepoint"}

\* The updates the server side of the model sends for the plot's PV: finite
\* values with any timestamp or none, and values that are no finite number.
PlotTimestamps == 0..MaxNowSec
PlotUpdates ==
    {[value |-> "1", timestamp |-> ts] : ts \in PlotTimestamps}
      \cup {[value |-> x, timestamp |-> 0] : x \in {"null", "1e999"}}

\* The history responses: at most MaxHist points, sorted by t, in seconds.
Histories ==
    {h \in UNION {[1..n -> [t : 1..MaxNowSec, v : {1}]] : n \in 0..MaxHist} :
        \A i \in 1..(Len(h) - 1) : h[i].t <= h[i + 1].t}

\* The plot component's render(container, widget): container._plotState and
\* the history fetch timeout; typeof Chart is 'undefined' when chart is
\* FALSE.
PlotRender(widget, chart) ==
    [data |-> <<>>,
     historyLoaded |-> FALSE,
     maxPoints |-> Cfg(widget, "maxPoints", DefaultMaxPoints),
     timeWindow |-> Cfg(widget, "timeWindow", DefaultTimeWindow) * 1000,
     pv |-> IF Truthy(widget.pv) THEN widget.pv ELSE Null,
     \* bookkeeping of the run, not fields of _plotState
     widget |-> widget,       \* the widget the page passes to update
     now |-> 1000,            \* Date.now()
     fetchTimer |-> Truthy(widget.pv) /\ chart,  \* the 100 ms timeout is pending
     rendered |-> widget,     \* the widget render's timeout closure holds
     fetches |-> <<>>,        \* the PVs of the history requests in flight
     repoints |-> 0,          \* PV changes of the widget so far
     updates |-> 0,           \* update calls so far
     lastOp |-> "render",
     lastValue |-> NoValue,   \* the value field of the update that ran last
     lastHist |-> <<>>,       \* json.data of the response merged last
     lastFetch |-> Null,      \* the PV of the request whose callback ran last
     compacted |-> FALSE,     \* that update's _plotCompact replaced the buffer,
     compactIn |-> <<>>,      \*   ... which was this
     compactOut |-> <<>>]     \*   ... by this

\* The plot of a run that follows a viewer or an editor page: none rendered.
PlotIdle == PlotRender([pv |-> Null, config |-> [maxPoints |-> Unset, timeWindow |-> Unset]], FALSE)

\* Time passes.
PlotTick ==
    /\ mode \in PlotModes \ {"plotRepoint"}
    /\ plot.now < MaxNowSec * 1000
    /\ plot' = [PlotRan(plot, "tick") EXCEPT !.now = @ + 1000]
    /\ UNCHANGED <<mode, viewer, editor, motor>>

\* render's timeout fires: _plotFetchHistory(container, widget).
PlotFetchTimer ==
    /\ mode \in PlotModes
    /\ plot.fetchTimer
    /\ plot' = PlotFetchHistory([PlotRan(plot, "fetch") EXCEPT !.fetchTimer = FALSE],
                                plot.rendered)
    /\ UNCHANGED <<mode, viewer, editor, motor>>

\* The page routes a pv_update of the plot's PV to the component's update.
PlotPVUpdate ==
    /\ mode \in PlotModes
    /\ plot.updates < (IF mode \in {"plot", "plotConfig"} THEN MaxUpdates ELSE MaxLive)
    /\ \E pvData \in PlotUpdates :
          /\ mode = "plotRepoint" => pvData.timestamp = 0
          /\ plot' = PlotUpdate(PlotRan(plot, "update"), plot.widget, pvData)
    /\ UNCHANGED <<mode, viewer, editor, motor>>

\* A history request is answered: the then-callback runs.
PlotHistoryResponse ==
    /\ mode \in HistoryModes
    /\ \E i \in DOMAIN plot.fetches, json \in Histories \cup {NoData} :
          /\ mode = "plotRepoint" => Len(json) <= 1
          /\ plot' = PlotMerge([PlotRan(plot, "merge")
                                   EXCEPT !.fetches = Without(@, i),
                                          !.lastFetch = plot.fetches[i]],
                               json)
    /\ UNCHANGED <<mode, viewer, editor, motor>>

\* A history request fails: the catch-callback logs a warning.
PlotHistoryFail ==
    /\ mode \in HistoryModes
    /\ \E i \in DOMAIN plot.fetches :
          plot' = PlotFetchFailed([PlotRan(plot, "fetchFail")
                                      EXCEPT !.fetches = Without(@, i),
                                             !.lastFetch = plot.fetches[i]])
    /\ UNCHANGED <<mode, viewer, editor, motor>>

\* The page re-points the widget: later update calls carry the other PV.
PlotRepoint ==
    /\ mode = "plotRepoint"
    /\ plot.repoints < MaxRepoints
    /\ \E pv \in RepointPVs \ {plot.widget.pv} :
          plot' = [PlotRan(plot, "repoint") EXCEPT !.widget.pv = pv, !.repoints = @ + 1]
    /\ UNCHANGED <<mode, viewer, editor, motor>>

\* The user edits the plot's config: maxPoints or timeWindow gets smaller;
\* later update calls carry the new config.
PlotReconfigure ==
    /\ mode = "plotConfig"
    /\ \E c \in PlotConfigs :
          /\ c # plot.widget.config
          /\ Cfg([config |-> c], "maxPoints", DefaultMaxPoints)
                <= Cfg(plot.widget, "maxPoints", DefaultMaxPoints)
          /\ Cfg([config |-> c], "timeWindow", DefaultTimeWindow)
                <= Cfg(plot.widget, "timeWindow", DefaultTimeWindow)
          /\ plot' = [PlotRan(plot, "reconfigure") EXCEPT !.widget.config = c]
    /\ UNCHANGED <<mode, viewer, editor, motor>>

PlotNext ==
    \/ PlotTick
    \/ PlotFetchTimer
    \/ PlotPVUpdate
    \/ PlotHistoryResponse
    \/ PlotHistoryFail
    \/ PlotRepoint
    \/ PlotReconfigure

\* ------------------------------------------------------- the motor control

\* No motor-control container is followed.
MotorIdle == [lastOp |-> "idle"]

\* motor-control's render(container, widget): container._motorState, and the
\* base PV its update reads from the widget.
MotorRender(widget) ==
    [basePv |-> widget.pv,
     state |-> [rbv |-> FromInt(0), val |-> FromInt(0), movn |-> "0"],
     \* bookkeeping of the run, not fields of the container
     lastPv |-> Null,         \* pvName of the update call that ran last
     lastValue |-> NoValue,   \* pvData.value of that call
     wrote |-> NoWrite,       \* the element the call wrote
     lastOp |-> "render"]

\* An update that stores every value as the readback too.
MotorUpdateAlsoReadback(m, pvName, value) ==
    LET base == IF Truthy(m.basePv) THEN m.basePv ELSE EmptyStr
        suffix == SubSeq(pvName, Len(base) + 1, Len(pvName))
        r == [m.state EXCEPT !.rbv = ParseFloatOrZero(value)]
        s == CASE suffix = <<":RBV">> -> r
               [] suffix = <<":VAL">> -> [r EXCEPT !.val = ParseFloatOrZero(value)]
               [] suffix = <<":MOVN">> -> [r EXCEPT !.movn = value]
               [] OTHER -> m.state
    IN [m EXCEPT !.state = s, !.lastPv = pvName, !.lastValue = value,
                 !.wrote = MotorControlUpdate(m.basePv, pvName, value),
                 !.lastOp = "update"]

\* motor-control's update(container, widget, pvName, pvData) on
\* container._motorState.
MotorUpdate(m, pvName, value) ==
    LET base == IF Truthy(m.basePv) THEN m.basePv ELSE EmptyStr
        suffix == SubSeq(pvName, Len(base) + 1, Len(pvName))
        s == CASE suffix = <<":RBV">> -> [m.state EXCEPT !.rbv = ParseFloatOrZero(value)]
               [] suffix = <<":VAL">> -> [m.state EXCEPT !.val = ParseFloatOrZero(value)]
               [] suffix = <<":MOVN">> -> [m.state EXCEPT !.movn = value]
               [] OTHER -> m.state
    IN [m EXCEPT !.state = s, !.lastPv = pvName, !.lastValue = value,
                 !.wrote = MotorControlUpdate(m.basePv, pvName, value),
                 !.lastOp = "update"]

\* The motor-control widgets the model renders, and the names and values of
\* the updates it calls them with: a base, or another name as long, followed
\* by one of the three suffixes, by another suffix or by none.
MotorBases == {<<"A">>, <<"A", "B">>, Null}
MotorSuffixes == {<<":RBV">>, <<":VAL">>, <<":MOVN">>, <<":DMOV">>, <<>>}
MotorPVNames ==
    {b \o s : b \in {<<"A">>, <<"A", "B">>, <<"X">>, <<>>}, s \in MotorSuffixes}
MotorValues == {"0", "1", "null", "\"abc\""}

MotorInit ==
    /\ mode = "motor"
    /\ viewer = ViewerInit
    /\ editor = EditorInit
    /\ plot = PlotIdle
    /\ motor \in {MotorRender([type |-> "motor-control", pv |-> b]) : b \in MotorBases}

\* The page calls the component's update for one pv_update.
MotorUpdateCall ==
    /\ mode = "motor"
    /\ \E pvName \in MotorPVNames, value \in MotorValues :
          motor' = MotorUpdate(motor, pvName, value)
    /\ UNCHANGED <<mode, viewer, editor, plot>>

MotorSpec == MotorInit /\ [][MotorUpdateCall]_vars

\* ---------------------------------------------------------- specification

Init ==
    /\ mode \in ViewerModes \cup EditorModes
    /\ viewer = ViewerInit
    /\ editor = EditorInit
    /\ motor = MotorIdle
    /\ plot = PlotIdle

Next == ViewerNext \/ InboundNext \/ EditorNext

Spec == Init /\ [][Next]_vars

\* One plot widget of a page, from its render on.
PlotInit ==
    /\ mode \in PlotModes
    /\ viewer = ViewerInit
    /\ editor = EditorInit
    /\ motor = MotorIdle
    /\ plot \in {PlotRender(w, chart) : w \in PlotWidgets, chart \in BOOLEAN}
    /\ mode = "plotConfig" => ~plot.fetchTimer

PlotSpec == PlotInit /\ [][PlotNext]_vars

\* Fairness the browser's scheduling gives: a pending timeout fires.
ViewerOnlyInit ==
    /\ mode = "viewer"
    /\ viewer = ViewerInit
    /\ editor = EditorInit
    /\ motor = MotorIdle
    /\ plot = PlotIdle

ViewerFairSpec ==
    ViewerOnlyInit /\ [][ViewerNext]_vars /\ WF_vars(ViewerTimerFire)

\* A plot whose buffer has outgrown maxPoints without a compaction yet (a
\* history merged into live points, load.js 1581): BufferPoints points sorted
\* by t from 0 to BufferSpan ms, the first k + 1 of them at t = 0 and the
\* others evenly spread, under the default maxPoints.
BufferPoints == 760
BufferSpan == 10000
Buffer(k) ==
    [i \in 1..BufferPoints |->
        [t |-> FromInt(IF i <= k THEN 0
                       ELSE ((i - 1 - k) * BufferSpan) \div (BufferPoints - 1 - k)),
         v |-> FromInt(1)]]
Bunches == {8 * j : j \in 0..MaxBunch}

\* A buffer of n points that share the timestamp ts (in seconds).
FlatBuffer(n, ts) == [i \in 1..n |-> [t |-> FromInt(ts * 1000), v |-> FromInt(1)]]

CompactInit ==
    /\ mode = "compact"
    /\ viewer = ViewerInit
    /\ editor = EditorInit
    /\ motor = MotorIdle
    /\ plot \in {[PlotRender([pv |-> <<"A">>,
                              config |-> [maxPoints |-> Unset, timeWindow |-> Unset]],
                             TRUE)
                     EXCEPT !.data = Buffer(k), !.fetchTimer = FALSE,
                            !.historyLoaded = TRUE, !.now = BufferSpan] : k \in Bunches}
               \cup {[PlotRender(w, TRUE)
                         EXCEPT !.data = FlatBuffer(n, ts), !.fetchTimer = FALSE,
                                !.historyLoaded = TRUE, !.now = BufferSpan] :
                        w \in PlotWidgets, n \in 1..MaxFlat \cup {BufferPoints},
                        ts \in PlotTimestamps}

\* _plotCompact(state) on the buffer.
PlotCompactBuffer ==
    /\ mode = "compact"
    /\ plot.lastOp = "render"
    /\ plot' = PlotCompact(PlotRan(plot, "compact"))
    /\ UNCHANGED <<mode, viewer, editor, motor>>

CompactSpec == CompactInit /\ [][PlotCompactBuffer]_vars

\* ----------------------------------------------------------------- claims

Subscribes(sent) == {i \in DOMAIN sent : sent[i].type = "subscribe"}

\* C1: in the viewer, once a socket has opened (first connect or reconnect)
\* exactly one subscribe message has been sent on it, in state OPEN, and it
\* names every PV every loaded widget is interested in, when there is one.
C1_ViewerOpenSubscribesAll ==
    (mode = "viewer" /\ viewer.ws \in {OPEN, CLOSING}) =>
        LET subs == Subscribes(viewer.sent)
            wanted == UNION {Range(WidgetPVs(viewer, viewer.widgets[i])) :
                                i \in DOMAIN viewer.widgets}
        IN IF wanted = {} THEN subs = {}
           ELSE /\ Cardinality(subs) = 1
                /\ \A i \in subs :
                      /\ Range(viewer.sent[i].pvs) = wanted
                      /\ Range(viewer.sent[i].pvs) = Range(CollectPVs(viewer))
                      /\ viewer.sent[i].rs = OPEN

\* A reconnected socket on which the subscribe for several PVs was sent.
C1_Witness ==
    /\ mode = "viewer"
    /\ viewer.ws = OPEN
    /\ viewer.retriedBeforeOpen
    /\ Len(viewer.sent) = 1
    /\ viewer.sent[1].type = "subscribe"
    /\ Len(viewer.sent[1].pvs) > 1

\* C2: in the editor, the open handler of a connection that replaces a
\* closed one sends a subscribe naming the full current PV set and sends no
\* unsubscribe.
C2_EditorReconnectResubscribes ==
    (mode = "editor" /\ editor.lastOp = "onopen" /\ editor.reconnected
       /\ CurrentPVs(editor) # {}) =>
        /\ \E i \in DOMAIN editor.sent :
              /\ editor.sent[i].type = "subscribe"
              /\ editor.sent[i].pvs = CurrentPVs(editor)
        /\ \A i \in DOMAIN editor.sent : editor.sent[i].type # "unsubscribe"

\* C3: in the editor, when the socket is OPEN and a handler that ends in
\* _syncPVSubscriptions has just run, the PVs the server holds for the
\* connection are the non-empty pv values of the current widgets.
C3_EditorServerMatchesWidgets ==
    (mode = "editor" /\ editor.ws = OPEN
       /\ editor.lastOp \in {"onopen", "updateWidgetConfig", "removeWidget"}) =>
        editor.server = CurrentPVs(editor)

\* C4: in the editor, subscribedPVs starts equal to the set of non-empty pv
\* values of the widgets, and every addWidget, removeWidget and
\* updateWidgetConfig({pv}) call keeps it equal.
C4_EditorSentSetTracksWidgets ==
    /\ (mode = "editor" => editor.subscribedPVs = CurrentPVs(editor))
    /\ [][(/\ mode = "editor"
           /\ editor'.lastOp \in {"addWidget", "removeWidget", "updateWidgetConfig"}
           /\ editor.subscribedPVs = CurrentPVs(editor))
          => editor'.subscribedPVs = CurrentPVs(editor')]_vars

\* removeWidget took one of two widgets that share a PV.
C4_Witness ==
    /\ mode = "editor"
    /\ editor.lastOp = "removeWidget"
    /\ Cardinality(DOMAIN editor.widgets) = 1
    /\ editor.subscribedPVs = {<<"A">>}
    /\ CurrentPVs(editor) = {<<"A">>}

\* A step of the viewer that runs _scheduleReconnect.
ViewerSchedules == mode = "viewer" /\ viewer'.lastOp \in {"onclose", "connectFail"}

\* C5: in the viewer, the first reconnect is scheduled with 1000 ms, and
\* each further one with no open in between with twice the previous delay,
\* at most 30000 ms, and never less than the previous delay.
C5_ViewerBackoffDoubles ==
    [][ViewerSchedules =>
          /\ viewer.sinceOpen = "start" => viewer'.timerDelay = 1000
          /\ viewer.sinceOpen = "retry" =>
                /\ viewer'.timerDelay = Min(2 * viewer.timerDelay, 30000)
                /\ viewer'.timerDelay >= viewer.timerDelay
                /\ viewer'.timerDelay <= 30000]_vars

\* A reconnect scheduled at the cap after consecutive failures.
C5_Witness ==
    /\ mode = "viewer"
    /\ viewer.lastOp = "connectFail"
    /\ viewer.sinceOpen = "retry"
    /\ viewer.timerDelay = 30000
    /\ viewer.reconnectDelay = 30000

\* C6: in the viewer, the first reconnect scheduled after an open uses
\* 1000 ms, whatever the delay had grown to before the open.
C6_ViewerOpenResetsBackoff ==
    [][(ViewerSchedules /\ viewer.sinceOpen = "open") => viewer'.timerDelay = 1000]_vars

\* The socket opened after failed attempts, then closed.
C6_Witness ==
    /\ mode = "viewer"
    /\ viewer.lastOp = "onclose"
    /\ viewer.retriedBeforeOpen
    /\ viewer.timerDelay = 1000
    /\ viewer.reconnectDelay = 2000

\* C7: in the viewer, once connectWebSocket has been called there is always
\* a live socket or exactly one pending reconnect timer, and whenever there
\* is no socket connectWebSocket is eventually called again.
C7_ViewerAlwaysReconnects ==
    /\ [](viewer.phase = "running" =>
            \/ viewer.ws # NoSocket
            \/ viewer.reconnectTimer /\ viewer.timers = 1)
    /\ \A b \in {0, 1} :
          (viewer.phase = "running" /\ viewer.ws = NoSocket /\ viewer.attempt = b)
             ~> (viewer.attempt # b)

\* The constructor threw after a close: no socket, a timer pending.
C7_Witness ==
    /\ viewer.phase = "running"
    /\ viewer.lastOp = "connectFail"
    /\ viewer.sinceOpen = "retry"
    /\ viewer.retriedBeforeOpen
    /\ viewer.ws = NoSocket
    /\ viewer.timers = 1

\* C8: in the editor, after every transport fault a new connection attempt
\* is on its way: a socket is connecting or open, or a reconnect timeout is
\* pending.
C8_EditorAlwaysReconnects ==
    (mode = "editor" /\ editor.lastOp # "new") =>
        \/ editor.ws \in {CONNECTING, OPEN, CLOSING}
        \/ editor.timers > 0

\* C9: a session has at most one pending reconnect timeout; in the viewer
\* reconnectTimer is set exactly while it is pending, and _scheduleReconnect
\* called then changes nothing.
C9_OnePendingTimer ==
    /\ viewer.timers <= 1
    /\ editor.timers <= 1
    /\ viewer.reconnectTimer <=> viewer.timers = 1
    /\ viewer.reconnectTimer => ScheduleReconnect(viewer) = viewer

\* The editor's socket closed and its reconnect timeout is pending.
C9_Witness ==
    /\ mode = "editor"
    /\ editor.lastOp = "onclose"
    /\ editor.ws = CLOSED
    /\ editor.timers = 1

\* C10: every message the viewer or the editor sent was sent on a socket
\* whose readyState was OPEN.
C10_SendOnlyWhileOpen ==
    /\ \A i \in DOMAIN viewer.sent : viewer.sent[i].rs = OPEN
    /\ \A i \in DOMAIN editor.sent : editor.sent[i].rs = OPEN

\* The viewer sent its subscribe and then a put on an open socket.
C10_Witness ==
    /\ mode = "viewer"
    /\ Len(viewer.sent) = 2
    /\ viewer.sent[1].type = "subscribe"
    /\ viewer.sent[2].type = "put"
    /\ viewer.sent[2].rs = OPEN

\* C11: a put requested while the socket is not OPEN changes nothing of the
\* session (socket, backoff delay, timer, messages sent), in the viewer and
\* in the editor, and a put message only ever goes out in the very step
\* that requests it on an OPEN socket: none is sent later.
C11_PutWhileNotOpenIsNoOp ==
    [][/\ (mode = "viewer" /\ viewer'.lastOp \in {"put", "putDropped"} /\ viewer.ws # OPEN)
            => viewer' = [viewer EXCEPT !.lastOp = "putDropped"]
       /\ (mode = "viewer" /\ NumPuts(viewer'.sent) > NumPuts(viewer.sent))
            => (viewer'.lastOp = "put" /\ viewer.ws = OPEN)
       /\ (mode = "editor" /\ editor'.lastOp = "sendPut" /\ editor.ws # OPEN)
            => editor' = [editor EXCEPT !.lastOp = "sendPut", !.sent = <<>>,
                                        !.puts = editor'.puts]
       /\ (mode = "editor" /\ NumPuts(editor'.sent) > 0)
            => (editor'.lastOp = "sendPut" /\ editor.ws = OPEN)]_vars

\* A put was dropped while the viewer waited for its reconnect timeout.
C11_Witness ==
    /\ mode = "viewer"
    /\ viewer.lastOp = "putDropped"
    /\ viewer.ws = NoSocket
    /\ viewer.reconnectTimer
    /\ viewer.timers = 1

\* A step in which the page's message handler dropped a frame.
ViewerDrops == mode = "inbound" /\ viewer'.lastOp \in {"msgMalformed", "msgIgnored"}
EditorDrops == mode = "editorInbound" /\ editor'.lastOp \in {"msgMalformed", "msgIgnored"}

\* C12: a frame that fails to parse, or whose type is not pv_update, changes
\* nothing of the session (the socket stays open, no timer is set, nothing
\* is sent, no widget is updated), in the viewer and in the editor, and a
\* pv_update handled right after it reaches the widgets it would reach
\* otherwise.
C12_BadFrameIsDropped ==
    [][/\ ViewerDrops =>
            /\ viewer' = [viewer EXCEPT !.lastOp = viewer'.lastOp,
                                        !.lastMsg = viewer'.lastMsg, !.routed = {},
                                        !.shown = <<>>]
            /\ viewer'.ws = OPEN
       /\ (mode = "inbound" /\ viewer.lastOp \in {"msgMalformed", "msgIgnored"}
             /\ viewer'.lastOp = "pv_update") =>
            /\ viewer'.ws = OPEN
            /\ viewer'.routed =
                  {i \in DOMAIN viewer.widgets :
                      Relevant(viewer, viewer.widgets[i], viewer'.lastMsg.pv)}
       /\ EditorDrops =>
            /\ editor' = [editor EXCEPT !.lastOp = editor'.lastOp,
                                        !.lastMsg = editor'.lastMsg, !.sent = <<>>]
            /\ editor'.ws = OPEN
       /\ (mode = "editorInbound" /\ editor.lastOp \in {"msgMalformed", "msgIgnored"}
             /\ editor'.lastOp = "pv_update") =>
            /\ DOMAIN editor'.widgets = DOMAIN editor.widgets
            /\ \A i \in DOMAIN editor.widgets :
                  editor'.widgets[i].currentValue =
                     IF editor.widgets[i].pv = editor'.lastMsg.pv
                     THEN editor'.lastMsg.value
                     ELSE editor.widgets[i].currentValue]_vars

\* The viewer, subscribed to several PVs, has just dropped a malformed frame.
C12_Witness ==
    /\ mode = "inbound"
    /\ viewer.lastOp = "msgMalformed"
    /\ viewer.lastMsg.kind = "malformed"
    /\ viewer.ws = OPEN
    /\ Len(CollectPVs(viewer)) > 1
    /\ ~viewer.reconnectTimer

\* C13: in the viewer, a pv_update runs the update of exactly the widgets
\* whose interest set holds its pv name: getSubscribePVs of the resolved
\* widget for a type that has one, the resolved pv otherwise; when no widget
\* is interested none is updated.
C13_UpdateReachesInterestedWidgets ==
    (mode = "inbound" /\ viewer.lastOp = "pv_update") =>
        \A i \in DOMAIN viewer.widgets :
           LET w == viewer.widgets[i]
               resolved == IF Truthy(w.pv) THEN ResolveVariables(w.pv, viewer.variables)
                           ELSE Null
               interest == IF viewer.components /\ w.type \in Registered
                           THEN Range(GetSubscribePVs(w.type, resolved))
                           ELSE {resolved}
           IN (i \in viewer.routed) <=> (viewer.lastMsg.pv \in interest)

\* One update of A:RBV reached a motor control on A and a custom widget on
\* A:RBV.
C13_Witness ==
    /\ mode = "inbound"
    /\ viewer.lastOp = "pv_update"
    /\ viewer.lastMsg.pv = <<"A", ":RBV">>
    /\ Len(viewer.widgets) = 2
    /\ viewer.widgets[1].type = "motor-control"
    /\ viewer.widgets[2].type = "custom"
    /\ viewer.routed = {1, 2}

\* A number that is NaN, Infinity or -Infinity.
NonFinite(a) == a[2] = 0

\* A buffer is sorted by t ascending.
SortedByT(data) ==
    \A i \in 1..(Len(data) - 1) : NumLeq(data[i].t, data[i + 1].t)

\* C14: a plot update whose value is not a finite number (NaN, Infinity or
\* -Infinity) leaves state.data as it was.
C14_NonFiniteValueDropped ==
    [][(/\ mode \in PlotModes
        /\ plot'.updates = plot.updates + 1
        /\ NonFinite(ParseFloat(plot'.lastValue)))
          => plot'.data = plot.data]_vars

\* C15: whenever _plotCompact has replaced the buffer, the buffer it produced
\* holds at most maxPoints points.
C15_CompactionWithinMaxPoints ==
    (mode \in PlotModes /\ plot.compacted) => Len(plot.compactOut) <= plot.maxPoints

\* C16: whenever _plotCompact has replaced a buffer that was sorted by t
\* ascending, the buffer it produced is sorted by t ascending.
C16_CompactionKeepsOrder ==
    (mode \in PlotModes /\ plot.compacted /\ SortedByT(plot.compactIn))
        => SortedByT(plot.compactOut)

\* Four sorted points were binned into fewer, one bin holding several.
C16_Witness ==
    /\ mode = "plot"
    /\ plot.compacted
    /\ plot.maxPoints = 2
    /\ Len(plot.compactIn) = 4
    /\ SortedByT(plot.compactIn)
    /\ Len(plot.compactOut) = 3
    /\ plot.compactIn[1].t # plot.compactIn[2].t
    /\ plot.compactIn[2].t = plot.compactIn[3].t

\* C17: after every plot update call and every history merge the buffer
\* holds at most 1.5 * maxPoints points.
C17_BufferWithinSlack ==
    (mode \in PlotModes /\ plot.lastOp \in {"update", "updateDropped", "merge"})
        => 2 * Len(plot.data) <= 3 * plot.maxPoints

\* C18: after the pruning step of a plot update performed at time now, every
\* point of the buffer has t >= now - timeWindow.
C18_NoPointOlderThanWindow ==
    (mode \in PlotModes /\ plot.lastOp = "update")
        => \A i \in DOMAIN plot.data :
              NumLeq(FromInt(plot.now - plot.timeWindow), plot.data[i].t)

\* C19: after every plot update and every history merge the buffer is
\* sorted by t ascending.
C19_BufferSorted ==
    (mode \in PlotModes /\ plot.lastOp \in {"update", "updateDropped", "merge"})
        => SortedByT(plot.data)

\* C20: a history response replaces the buffer by all its points, in order
\* and in ms, followed by exactly the live points whose t is strictly
\* greater than the last history point's t; an empty history leaves the
\* live points as they were.
C20_MergeIsHistoryThenNewerLive ==
    [][(mode \in PlotModes /\ plot'.lastOp = "merge") =>
          LET hist == plot'.lastHist
              n == Len(hist)
              kept == SelectSeq(plot.data,
                         LAMBDA p : NumLt(FromInt(hist[n].t * 1000), p.t))
          IN IF n = 0 THEN plot'.data = plot.data
             ELSE /\ Len(plot'.data) = n + Len(kept)
                  /\ \A i \in 1..n :
                        /\ plot'.data[i].t = FromInt(hist[i].t * 1000)
                        /\ plot'.data[i].v = FromInt(hist[i].v)
                  /\ \A i \in 1..Len(kept) : plot'.data[n + i] = kept[i]]_vars

\* A two-point history was merged with two live points, of which the one
\* newer than the history was kept.
C20_Witness ==
    /\ mode = "plotHistory"
    /\ plot.lastOp = "merge"
    /\ Len(plot.lastHist) = 2
    /\ plot.updates = 2
    /\ Len(plot.data) = 3
    /\ NumLt(plot.data[2].t, plot.data[3].t)

\* C21: when the history and the live buffer are each sorted by t, the
\* merged buffer holds no live point with t <= the last history point's t
\* and is sorted by t over its whole length, the seam included.
C21_MergeOfSortedIsSorted ==
    [][(/\ mode \in PlotModes
        /\ plot'.lastOp = "merge"
        /\ SortedByT(plot.data)
        /\ \A i \in 1..(Len(plot'.lastHist) - 1) :
              plot'.lastHist[i].t <= plot'.lastHist[i + 1].t)
          => LET n == Len(plot'.lastHist)
             IN /\ SortedByT(plot'.data)
                /\ n > 0 => \A i \in (n + 1)..Len(plot'.data) :
                               NumLt(plot'.data[n].t, plot'.data[i].t)]_vars

\* A history ending at 2 s was merged with sorted live points at 2 s and
\* 3 s: the one at 3 s follows the history.
C21_Witness ==
    /\ mode = "plotHistory"
    /\ plot.lastOp = "merge"
    /\ plot.now = 3000
    /\ plot.updates = 2
    /\ Len(plot.lastHist) = 1
    /\ plot.lastHist[1].t = 2
    /\ Len(plot.data) = 2
    /\ plot.data[2].t = FromInt(3000)

\* C22: the response of a history fetch made for a PV that is no longer the
\* widget's PV is discarded: its callback leaves state.data as it was.
C22_StaleHistoryIsDiscarded ==
    [][(/\ mode = "plotRepoint"
        /\ plot'.lastOp \in {"merge", "mergeNoData"}
        /\ plot'.lastFetch # plot.pv)
          => plot'.data = plot.data]_vars

\* C23: a failed history fetch leaves the buffer and the rest of the plot's
\* state exactly as they were, and an update with a numeric value that
\* arrives once the fetch is over without a merge is still accepted: the
\* buffer it leaves is what pruning and compaction keep of the old buffer
\* with the new point appended.
C23_FetchFailureKeepsLivePoints ==
    [][/\ (mode = "plotHistory" /\ plot'.lastOp = "fetchFail")
            => /\ plot'.data = plot.data
               /\ plot'.pv = plot.pv
               /\ plot'.historyLoaded = plot.historyLoaded
               /\ plot'.maxPoints = plot.maxPoints
               /\ plot'.timeWindow = plot.timeWindow
       /\ (/\ mode = "plotHistory"
           /\ plot.lastOp = "fetchFail"
           /\ plot'.lastOp \in {"update", "updateDropped"}
           /\ ~IsNaN(ParseFloat(plot'.lastValue)))
            => /\ plot'.lastOp = "update"
               /\ ~plot'.compacted =>
                     \E ts \in PlotTimestamps, k \in 0..(Len(plot.data) + 1) :
                        LET pushed == Append(plot.data,
                                         [t |-> FromInt(PointTime(ts, plot.now)),
                                          v |-> ParseFloat(plot'.lastValue)])
                        IN /\ plot'.data = SubSeq(pushed, k + 1, Len(pushed))
                           /\ k <= Len(plot.data) =>
                                 plot'.data[Len(plot'.data)] = pushed[Len(pushed)]
               /\ plot'.compacted => plot'.compactIn[Len(plot'.compactIn)].v
                                        = ParseFloat(plot'.lastValue)]_vars

\* The fetch for the widget's PV failed with one live point collected: the
\* point is still the buffer, and an update can follow.
C23_Witness ==
    /\ mode = "plotHistory"
    /\ plot.lastOp = "fetchFail"
    /\ plot.lastFetch = plot.pv
    /\ ~plot.historyLoaded
    /\ plot.updates = 1
    /\ Len(plot.data) = 1
    /\ plot.data[1].t = FromInt(2000)

\* C24: compacting a sorted buffer of 760 points spanning 0..10000 ms under
\* maxPoints = 500 leaves exactly 500 points in ascending t order, the k-th
\* of them in the k-th 20 ms bin.
C24_CompactsTo500 ==
    (/\ mode = "compact"
     /\ plot.lastOp = "compact"
     /\ plot.maxPoints = DefaultMaxPoints)
        => /\ plot.compacted
           /\ Len(plot.data) = DefaultMaxPoints
           /\ SortedByT(plot.data)
           /\ \A k \in DOMAIN plot.data :
                 LET w == BufferSpan \div DefaultMaxPoints
                 IN /\ NumLeq(FromInt((k - 1) * w), plot.data[k].t)
                    /\ NumLt(plot.data[k].t, FromInt(k * w))

\* Does this widget's update expect a number in a pv_update of pvName: the
\* numeric display, and the motor control for its readback and setpoint.
ExpectsNumber(v, widget, pvName) ==
    /\ v.components
    /\ \/ widget.type = "numeric-display"
       \/ /\ widget.type = "motor-control"
          /\ pvName \in {ResolvedPv(widget, v.variables) \o <<":RBV">>,
                         ResolvedPv(widget, v.variables) \o <<":VAL">>}

\* C25: a pv_update whose value is not a number leaves every widget that
\* expects a number showing the placeholder '---', and the update of every
\* widget interested in it, and in the pv_update handled next, still runs.
C25_NonNumericShowsPlaceholder ==
    [][/\ (/\ mode = "inbound"
           /\ viewer'.lastOp = "pv_update"
           /\ IsNaN(ParseFloat(viewer'.lastMsg.value)))
            => /\ viewer'.routed =
                     {i \in DOMAIN viewer.widgets :
                         Relevant(viewer, viewer.widgets[i], viewer'.lastMsg.pv)}
               /\ \A i \in viewer'.routed :
                     ExpectsNumber(viewer, viewer.widgets[i], viewer'.lastMsg.pv)
                        => viewer'.shown[i].text = Placeholder
       /\ (/\ mode = "inbound"
           /\ viewer.lastOp = "pv_update"
           /\ IsNaN(ParseFloat(viewer.lastMsg.value))
           /\ viewer'.lastOp = "pv_update")
            => viewer'.routed =
                  {i \in DOMAIN viewer.widgets :
                      Relevant(viewer, viewer.widgets[i], viewer'.lastMsg.pv)}]_vars

\* C26: in the editor, once the dashboard fetch has completed and the socket
\* has opened, in either order, the server holds a subscription for every
\* PV of the loaded widgets.
C26_EditorLoadAndOpenSubscribe ==
    (/\ mode = "editor"
     /\ editor.ws = OPEN
     /\ ~editor.fetching
     /\ ~editor.reconnected
     /\ editor.lastOp \in {"onopen", "loadConfig"})
        => CurrentPVs(editor) \subseteq editor.server

\* The unsubscribe messages among the messages of a handler.
Unsubscribes(sent) == {i \in DOMAIN sent : sent[i].type = "unsubscribe"}

\* C27: after the editor's loadConfig(config), for every config, one that
\* is null or has no widgets list included, subscribedPVs is the set of PVs
\* of the widgets now present, and while the socket is OPEN an unsubscribe
\* has been sent for every PV subscribed before that no widget uses now.
C27_LoadConfigSyncsSubscriptions ==
    [][(mode = "editor" /\ editor'.lastOp = "loadConfig")
          => /\ editor'.subscribedPVs = CurrentPVs(editor')
             /\ editor.ws = OPEN =>
                   \A pv \in editor.subscribedPVs \ CurrentPVs(editor') :
                      \E i \in Unsubscribes(editor'.sent) : pv \in editor'.sent[i].pvs]_vars

\* C28: in the editor, removing a widget or re-pointing one sends no
\* unsubscribe for a PV that a remaining widget still uses: every PV an
\* unsubscribe of that handler names is used by no widget.
C28_NoUnsubscribeWhileShared ==
    (mode \in EditorModes /\ editor.lastOp \in {"removeWidget", "updateWidgetConfig"})
        => \A i \in Unsubscribes(editor.sent) :
              editor.sent[i].pvs \cap CurrentPVs(editor) = {}

\* One of two widgets sharing a PV was removed while the socket was open and
\* the server subscribed: nothing was sent and the server still holds the PV.
C28_Witness ==
    /\ mode = "editor"
    /\ editor.lastOp = "removeWidget"
    /\ editor.ws = OPEN
    /\ Cardinality(DOMAIN editor.widgets) = 1
    /\ CurrentPVs(editor) = {<<"A">>}
    /\ editor.server = {<<"A">>}
    /\ editor.sent = <<>>

\* C29: an editor sync whose two diff sets are empty sends nothing, and a
\* viewer whose socket opens with no PV to subscribe to sends nothing.
C29_NothingSentWithoutChange ==
    [][/\ (/\ mode \in EditorModes
           /\ editor'.lastOp \in {"onopen", "removeWidget", "updateWidgetConfig"}
           /\ editor.subscribedPVs = CurrentPVs(editor'))
            => editor'.sent = <<>>
       /\ (/\ mode \in ViewerModes
           /\ viewer'.lastOp = "onopen"
           /\ CollectPVs(viewer) = <<>>)
            => viewer'.sent = <<>>]_vars

\* The socket is open and a widget was re-pointed to the PV another widget
\* is subscribed with already: the sync had nothing to send.
C29_Witness ==
    /\ mode = "editor"
    /\ editor.lastOp = "updateWidgetConfig"
    /\ editor.ws = OPEN
    /\ Cardinality(DOMAIN editor.widgets) = 2
    /\ \A i \in DOMAIN editor.widgets : editor.widgets[i].pv = <<"B">>
    /\ editor.server = {<<"B">>}
    /\ editor.sent = <<>>

\* The PV names one loaded widget stands for: the three suffixed names of a
\* motor-control's base, what another type's getSubscribePVs returns, the
\* resolved pv of a type without getSubscribePVs, nothing without a pv.
DerivedPVs(v, widget) ==
    LET resolvedPv == ResolvedPv(widget, v.variables)
        hasGetSubscribePVs == v.components /\ widget.type \in Registered
    IN IF ~Truthy(resolvedPv) THEN {}
       ELSE IF hasGetSubscribePVs /\ widget.type = "motor-control"
            THEN {resolvedPv \o <<":RBV">>, resolvedPv \o <<":VAL">>,
                  resolvedPv \o <<":MOVN">>}
       ELSE IF hasGetSubscribePVs
            THEN Range(GetSubscribePVs(widget.type, resolvedPv))
       ELSE {resolvedPv}

\* C30: the PV list the viewer collects, and the one it has subscribed with
\* on its open socket, holds no PV twice and holds exactly the derived PV
\* names of the loaded widgets.
C30_ViewerPVListIsUnionWithoutDuplicates ==
    (mode \in ViewerModes /\ viewer.phase = "running") =>
        LET wanted == UNION {DerivedPVs(viewer, viewer.widgets[i]) :
                                i \in DOMAIN viewer.widgets}
            pvs == CollectPVs(viewer)
        IN /\ Cardinality(Range(pvs)) = Len(pvs)
           /\ Range(pvs) = wanted
           /\ \A i \in Subscribes(viewer.sent) :
                 /\ Cardinality(Range(viewer.sent[i].pvs)) = Len(viewer.sent[i].pvs)
                 /\ Range(viewer.sent[i].pvs) = wanted

\* A motor-control of base A and a widget of an unregistered type on A:RBV
\* are loaded: the list subscribed with names A:RBV once, then A:VAL and
\* A:MOVN.
C30_Witness ==
    /\ mode = "viewer"
    /\ viewer.ws = OPEN
    /\ viewer.components
    /\ Len(viewer.widgets) = 2
    /\ viewer.widgets[1] = [type |-> "motor-control", pv |-> <<"A">>]
    /\ viewer.widgets[2] = [type |-> "custom", pv |-> <<"A", ":RBV">>]
    /\ Len(viewer.sent) = 1
    /\ viewer.sent[1].pvs = <<<<"A", ":RBV">>, <<"A", ":VAL">>, <<"A", ":MOVN">>>>

\* The tail of an update's name beyond the base name of the motor-control;
\* <<"<other>">> when the name does not start with the base.
SuffixBeyondBase(m) ==
    LET base == IF Truthy(m.basePv) THEN m.basePv ELSE EmptyStr
    IN IF Len(m.lastPv) >= Len(base) /\ SubSeq(m.lastPv, 1, Len(base)) = base
       THEN SubSeq(m.lastPv, Len(base) + 1, Len(m.lastPv))
       ELSE <<"<other>">>

\* C31: an update named base:RBV changes at most the readback field of a
\* motor-control, base:VAL at most the setpoint field, base:MOVN at most the
\* moving flag, each to the update's value, and an update with another
\* suffix beyond the base changes none of the three.
C31_MotorSuffixSelectsField ==
    [][(mode = "motor" /\ motor'.lastOp = "update") =>
          LET suffix == SuffixBeyondBase(motor')
              value == motor'.lastValue
          IN /\ suffix = <<":RBV">> =>
                   motor'.state = [motor.state EXCEPT !.rbv = ParseFloatOrZero(value)]
             /\ suffix = <<":VAL">> =>
                   motor'.state = [motor.state EXCEPT !.val = ParseFloatOrZero(value)]
             /\ suffix = <<":MOVN">> =>
                   motor'.state = [motor.state EXCEPT !.movn = value]
             /\ suffix \notin {<<":RBV">>, <<":VAL">>, <<":MOVN">>, <<"<other>">>} =>
                   motor'.state = motor.state]_vars

\* The motor of base A had a readback, a setpoint and a moving flag, and an
\* update named A:DMOV left them as they were.
C31_Witness ==
    /\ mode = "motor"
    /\ motor.lastOp = "update"
    /\ motor.basePv = <<"A">>
    /\ motor.lastPv = <<"A", ":DMOV">>
    /\ motor.state = [rbv |-> FromInt(1), val |-> FromInt(1), movn |-> "1"]

\* The sums of t and of v over data[lo..hi], and the point of their means.
RECURSIVE SumOver(_, _, _)
SumOver(data, lo, hi) ==
    IF lo > hi THEN [t |-> FromInt(0), v |-> FromInt(0)]
    ELSE LET rest == SumOver(data, lo + 1, hi)
         IN [t |-> NumAdd(data[lo].t, rest.t), v |-> NumAdd(data[lo].v, rest.v)]
MeanOver(data, lo, hi) ==
    [t |-> NumDiv(SumOver(data, lo, hi).t, hi - lo + 1),
     v |-> NumDiv(SumOver(data, lo, hi).v, hi - lo + 1)]

\* The output is the input cut into consecutive non-empty runs, one output
\* point per run in the order of the runs, each the mean of its run; `ends`
\* are the indices the runs end at.
AveragesOfRuns(input, output) ==
    \E ends \in SUBSET DOMAIN input :
       /\ Cardinality(ends) = Len(output)
       /\ input # <<>> => Len(input) \in ends
       /\ \A e \in ends :
             LET before == {x \in ends : x < e}
                 start == IF before = {} THEN 1
                          ELSE 1 + CHOOSE x \in before : \A y \in before : y <= x
             IN output[Cardinality(before) + 1] = MeanOver(input, start, e)

\* C32: whenever _plotCompact has replaced a buffer sorted by t, every input
\* point went into exactly one output point, every output point is the mean
\* in t and in v of a non-empty run of consecutive input points, and the
\* output points are in the order of their runs.
C32_CompactionAveragesRuns ==
    (mode \in PlotModes /\ plot.compacted /\ SortedByT(plot.compactIn))
        => AveragesOfRuns(plot.compactIn, plot.compactOut)

\* Three sorted points were binned into two: the first two, at different
\* times, into one point at neither time.
C32_Witness ==
    /\ mode = "plot"
    /\ plot.compacted
    /\ SortedByT(plot.compactIn)
    /\ Len(plot.compactIn) = 3
    /\ Len(plot.compactOut) = 2
    /\ plot.compactOut[1].t # plot.compactIn[1].t
    /\ plot.compactOut[1].t # plot.compactIn[2].t
    /\ plot.compactOut[2] = plot.compactIn[3]

\* All points of the buffer share one timestamp.
SameTime(data) == \A i, j \in DOMAIN data : data[i].t = data[j].t

\* C33: _plotCompact on a buffer whose points all share one timestamp leaves
\* state.data as it is, whatever the buffer's length and maxPoints.
C33_SameTimestampCompactionIsNoOp ==
    [][(mode = "compact" /\ SameTime(plot.data))
          => /\ plot'.data = plot.data
             /\ ~plot'.compacted]_vars

\* _plotCompact has run on 760 points that share one timestamp under
\* maxPoints = 1 and has left them all.
C33_Witness ==
    /\ mode = "compact"
    /\ plot.lastOp = "compact"
    /\ plot.maxPoints = 1
    /\ Len(plot.data) = BufferPoints
    /\ SameTime(plot.data)

\* C34: a plot update that finds the widget's PV different from the PV the
\* buffer was built for empties the buffer, clears historyLoaded, takes the
\* new PV and requests the new PV's history, and appends nothing.
C34_PVChangeDiscardsBuffer ==
    [][(/\ mode = "plotRepoint"
        /\ plot.widget.pv # plot.pv
        /\ plot'.updates = plot.updates + 1)
          => /\ plot'.lastOp = "updateReset"
             /\ plot'.data = <<>>
             /\ ~plot'.historyLoaded
             /\ plot'.pv = plot.widget.pv
             /\ plot'.fetches = Append(plot.fetches, plot.widget.pv)]_vars

\* The plot built for A, with its history merged and a live point, was
\* re-pointed to B and updated: the buffer is empty and B's history is
\* requested.
C34_Witness ==
    /\ mode = "plotRepoint"
    /\ plot.lastOp = "updateReset"
    /\ plot.pv = <<"B">>
    /\ plot.updates = 2
    /\ plot.data = <<>>
    /\ ~plot.historyLoaded
    /\ plot.fetches = <<<<"B">>>>

\* C35: reducing a plot's maxPoints or timeWindow leaves the buffer as it
\* is, and the update that appends a point next leaves at most 1.5 times the
\* new maxPoints points, the first of them no older than now minus the new
\* timeWindow.
C35_ReducedBoundsReachedOnNextAppend ==
    [][/\ (mode = "plotConfig" /\ plot'.lastOp = "reconfigure")
            => plot'.data = plot.data
       /\ (mode = "plotConfig" /\ plot.lastOp = "reconfigure" /\ plot'.lastOp = "update")
            => /\ plot'.maxPoints = Cfg(plot.widget, "maxPoints", DefaultMaxPoints)
               /\ 2 * Len(plot'.data) <= 3 * plot'.maxPoints
               /\ plot'.data # <<>> =>
                     NumLeq(FromInt(plot.now - plot'.timeWindow), plot'.data[1].t)]_vars

\* C36: a pv_update for PV P with value v that the editor processes leaves
\* every widget whose pv is P with _currentValue v and every other widget as
\* it was, so that along updates each widget holds the latest value of its
\* PV.
C36_EditorLatestValueWins ==
    [][(mode = "editorInbound" /\ editor'.lastOp = "pv_update")
         => /\ DOMAIN editor'.widgets = DOMAIN editor.widgets
            /\ \A i \in DOMAIN editor.widgets :
                  IF editor.widgets[i].pv = editor'.lastMsg.pv
                  THEN editor'.widgets[i] =
                         [editor.widgets[i] EXCEPT !.currentValue = editor'.lastMsg.value]
                  ELSE editor'.widgets[i] = editor.widgets[i]]_vars

C36_Witness ==
    /\ mode = "editorInbound"
    /\ editor.lastOp = "pv_update"
    /\ editor.lastMsg.pv = <<"A">>
    /\ editor.lastMsg.value = "1"
    /\ \E i, j \in DOMAIN editor.widgets :
          /\ editor.widgets[i].pv = <<"A">> /\ editor.widgets[i].currentValue = "1"
          /\ editor.widgets[j].pv = <<"B">> /\ editor.widgets[j].currentValue = "2"

\* C40: a widget of the editor whose pv updateWidgetConfig changes does not
\* keep the value it received for the PV it had before: its _currentValue is
\* null afterwards.
C40_RepointedWidgetDropsValue ==
    [][(/\ mode = "editorInbound"
        /\ editor.lastOp = "pv_update"
        /\ editor'.lastOp = "updateWidgetConfig")
         => \A i \in DOMAIN editor.widgets :
               (/\ editor.widgets[i].pv = editor.lastMsg.pv
                /\ editor'.widgets[i].pv # editor.widgets[i].pv)
                  => editor'.widgets[i].currentValue = NoValue]_vars

\* C37: in the viewer a PV name is in _collectPVs() exactly when
\* handlePVUpdate judges at least one widget relevant to that name.
PVNames ==
    {<<"A">>, <<"B">>, <<"$P">>, EmptyStr,
     <<"A", ":RBV">>, <<"A", ":VAL">>, <<"A", ":MOVN">>, <<"A", ":DMOV">>}

C37_SubscribedIffRouted ==
    mode \in ViewerModes =>
       \A name \in PVNames :
          name \in Range(CollectPVs(viewer))
             <=> \E i \in DOMAIN viewer.widgets : Relevant(viewer, viewer.widgets[i], name)

C37_Witness ==
    /\ mode = "inbound"
    /\ viewer.lastOp = "pv_update"
    /\ viewer.lastMsg.pv = <<"A", ":RBV">>
    /\ viewer.lastMsg.pv \in Range(CollectPVs(viewer))
    /\ \E i \in viewer.routed : viewer.widgets[i].type = "motor-control"
    /\ \E i \in DOMAIN viewer.widgets : i \notin viewer.routed

\* C39: in every reachable viewer state reconnectDelay lies between 1000 and
\* 30000 ms and is 30000 or 1000 times a power of two.
C39_ReconnectDelayShape ==
    mode \in ViewerModes =>
       /\ ReconnectFloor <= viewer.reconnectDelay
       /\ viewer.reconnectDelay <= maxReconnectDelay
       /\ \/ viewer.reconnectDelay = maxReconnectDelay
          \/ \E k \in 0..4 : viewer.reconnectDelay = ReconnectFloor * 2 ^ k

C39_Witness ==
    /\ mode = "viewer"
    /\ viewer.lastOp = "onclose"
    /\ viewer.timerDelay = 16000
    /\ viewer.reconnectDelay = maxReconnectDelay

\* C38: a viewer or editor session has at most one live (connecting or open)
\* socket: a socket is created only while no socket is live, and a
\* reconnect timer (never more than one) is pending only while none is.
Live(ws) == ws \in {CONNECTING, OPEN}

C38_OneLiveSocket ==
    [][/\ mode \in ViewerModes =>
            /\ viewer'.timers <= 1
            /\ viewer'.timers > 0 => ~Live(viewer'.ws)
            /\ viewer'.lastOp = "connect" =>
                  /\ ~Live(viewer.ws)
                  /\ viewer.phase = "init" \/ viewer.timers = 1
       /\ mode \in EditorModes =>
            /\ editor'.timers <= 1
            /\ editor'.timers > 0 => ~Live(editor'.ws)
            /\ editor'.lastOp = "connect" =>
                  /\ ~Live(editor.ws)
                  /\ editor.lastOp = "new" \/ editor.timers = 1]_vars

C38_Witness ==
    /\ mode = "viewer"
    /\ viewer.lastOp = "connect"
    /\ viewer.ws = CONNECTING
    /\ viewer.sinceOpen = "retry"
    /\ viewer.timers = 0

====
